---------------------------- MODULE Spec2Model ----------------------------
(***************************************************************************)
(* A model of ext2-rs: sector addressing (src/sector.rs), the in-memory    *)
(* volume (src/volume/mod.rs), the filesystem handle, the inode block      *)
(* resolver, the block and directory iterators (src/fs/mod.rs) and the     *)
(* synced inode enumeration, file read and path resolver (src/fs/sync.rs). *)
(*                                                                         *)
(* Scale.  The source fixes the smallest block at 1024 bytes (1024 << s,   *)
(* log = s + 10) and the smallest sector at 512 bytes.  The model runs the *)
(* same code with the base exponents LogBlockBase and LogSectorSize, so    *)
(* that a block holds n4 = 2^(LogBlockBase+s-2) pointers with n4 small     *)
(* enough for TLC to enumerate every logical index of the four regions.    *)
(* Every other layout number (superblock at byte 1024, 128-byte inodes,    *)
(* 32-byte descriptors, 8-byte directory headers, 12 direct pointers) is   *)
(* the source's.                                                           *)
(***************************************************************************)
EXTENDS Integers, Sequences, FiniteSets, TLC

(***************************************************************************)
(* Bounds of the model.                                                    *)
(***************************************************************************)
\* log2 of the base block size (the source's 10 in `1024 << s`, `s + 10`).
LogBlockBase == 4
\* log2 of the sector size S::LOG_SIZE of the filesystem's volume.
LogSectorSize == 2
\* the file of the images has this many blocks in its first doubly-indirect
\* leaf and this many at the start of its triply-indirect region
DoubleBlocks == 2
TripleBlocks == 2
\* try_block is probed up to this many indices past the last region
ExtraIndex == 2
\* open is called with every path of at most this many bytes
MaxPathLen == 4
\* inode_nth and inodes_nth are called with indices up to this one
MaxInodeArg == 8
\* a walker or an iterator is stepped at most this many times
MaxCalls == 9
\* with_block_size is called with blocks of up to 2^MaxLogDiff sectors
MaxLogDiff == 2
\* a slice is accessed mutably at most MaxWrites times before it is committed
MaxWrites == 2
\* threads that share clones of one Synced<Ext2> handle
NThreads == 2

(***************************************************************************)
(* Program constants.                                                      *)
(***************************************************************************)
EXT2_MAGIC == 61267            \* 0xef53
SUPERBLOCK_OFFSET == 1024      \* Address::from(1024_usize)
SUPERBLOCK_SIZE == 1024        \* size_of::<Superblock>()
DESCRIPTOR_SIZE == 32          \* size_of::<BlockGroupDescriptor>()
RAW_INODE_SIZE == 128          \* size_of::<RawInode>()
DIRECT_COUNT == 12             \* direct_pointer: [u32; 12]
POINTER_SIZE == 4              \* a block address occupies 4 bytes
DIRENT_HEADER == 8             \* inode(4) rec_len(2) name_len(1) type(1)
ROOT_INODE == 2                \* inode_nth(2)
DIRECTORY == 16384             \* TypePerm::DIRECTORY = 0x4000
FILE == 32768                  \* TypePerm::FILE = 0x8000
SYMLINK == 40960               \* TypePerm::SYMLINK = 0xA000
RONLY_FILE_SIZE_64 == 2        \* FeaturesROnly::RONLY_FILE_SIZE_64 = 0x0002
SLASH == 47                    \* b'/'


(***************************************************************************)
(* Integer helpers: the source's shifts and masks on unsigned values, and  *)
(* the arithmetic shift of a signed offset (floor division).  Every u32 of *)
(* the model stays below 2^31, so no u32 operation of the source wraps.    *)
(***************************************************************************)
Pow2(n) == 2 ^ n
Shr(x, n) == x \div Pow2(n)
Mask(x, n) == x % Pow2(n)
Abs(x) == IF x < 0 THEN 0 - x ELSE x
Min(a, b) == IF a < b THEN a ELSE b

Ok(v) == [tag |-> "Ok", val |-> v]
Err(e) == [tag |-> "Err", err |-> e]
IsOk(r) == r.tag = "Ok"
IsErr(r) == r.tag = "Err"

(***************************************************************************)
(* src/sector.rs: Address<S>.  S is the sector witness' LOG_SIZE.          *)
(***************************************************************************)
Address_new_unchecked(sector, offset) == [sector |-> sector, offset |-> offset]

\* a variant that keeps the offset as it is given
Address_new_unmasked(S, sector, offset) ==
    Address_new_unchecked(sector + Shr(offset, S), Abs(offset))

Address_new(S, sector, offset) ==
    LET sec == sector + Shr(offset, S)
        off == Mask(Abs(offset), S)
    IN  Address_new_unchecked(sec, off)

\* a variant that drops the sectors inside the block
Address_with_block_size_no_top(S, block, offset, log_block_size) ==
    Address_new_unchecked(
        (block + Shr(offset, log_block_size)) * Pow2(log_block_size - S),
        Mask(Mask(Abs(offset), log_block_size), S))

Address_with_block_size(S, block, offset, log_block_size) ==
    LET blk == block + Shr(offset, log_block_size)
        off == Mask(Abs(offset), log_block_size)
        log_diff == log_block_size - S
        top_offset == Shr(off, S)
        low == Mask(off, S)
        \* block << log_diff | top_offset: top_offset < 2^log_diff, so the
        \* bitwise or of the two is their sum
        sector == blk * Pow2(log_diff) + top_offset
    IN  Address_new_unchecked(sector, low)

Address_into_index(S, a) == a.sector * Pow2(S) + a.offset

Address_from(S, idx) == Address_new(S, Shr(idx, S), Mask(idx, S))

Address_add(S, a, b) == Address_new(S, a.sector + b.sector, a.offset + b.offset)

Address_sub(S, a, b) == Address_new(S, a.sector - b.sector, a.offset - b.offset)

\* impl Step for Address: add_one, sub_one, add_usize.  A u32 that wrapped
\* below 0 is written as its i32 value.
Address_add_one(S, a) == Address_new(S, a.sector + 1, 0)
Address_sub_one(S, a) == Address_new(S, a.sector - 1, 0)
Address_add_usize(S, a, n) == Address_new(S, a.sector + n, 0)

\* #[derive(PartialOrd)]: lexicographic on (sector, offset)
Address_ge(a, b) ==
    \/ a.sector > b.sector
    \/ a.sector = b.sector /\ a.offset >= b.offset

(***************************************************************************)
(* src/volume/mod.rs: the in-memory volume (impl_slice!, Vec<u8>).  A      *)
(* volume is its length and its bytes; data holds the non-zero bytes.      *)
(***************************************************************************)
ByteAt(v, a) == IF a \in DOMAIN v.data THEN v.data[a] ELSE 0

Volume_size(S, v) == Address_from(S, v.len)

\* VolumeSlice: a Cow<[T]> and the address it was taken at
VolumeSlice_new(inner, index) ==
    [inner |-> inner, index |-> index, cow |-> "Borrowed"]
VolumeSlice_new_owned(inner, index) ==
    [inner |-> inner, index |-> index, cow |-> "Owned"]
VolumeSlice_is_mutated(slice) == slice.cow = "Owned"
VolumeSlice_address(slice) == slice.index
\* as_mut: Cow::to_mut makes the buffer owned
VolumeSlice_as_mut(slice) == [slice EXCEPT !.cow = "Owned"]

Volume_slice_unchecked(S, v, start, end) ==
    LET s == Address_into_index(S, start)
        e == Address_into_index(S, end)
    IN  VolumeSlice_new([k \in 1..(e - s) |-> ByteAt(v, s + k - 1)], start)

Volume_slice(S, v, start, end) ==
    IF Address_ge(Volume_size(S, v), end)
    THEN Ok(Volume_slice_unchecked(S, v, start, end))
    ELSE Err([kind |-> "AddressOutOfBounds", sector |-> end.sector,
              offset |-> end.offset, size |-> Pow2(S)])

\* dynamic_cast::<u16/u32> and the hand-written little-endian loads
LE16(b, k) == b[k] + 256 * b[k + 1]
LE32(b, k) == b[k] + 256 * b[k + 1] + 65536 * b[k + 2] + 16777216 * b[k + 3]

(***************************************************************************)
(* On-disk records (src/sys/superblock.rs, src/sys/block_group.rs,         *)
(* src/sys/inode.rs): packed little-endian fields projected out of a byte  *)
(* slice b (1-based) by dynamic_cast.                                      *)
(***************************************************************************)
Superblock_cast(b) ==
    [inodes_count     |-> LE32(b, 1),
     blocks_count     |-> LE32(b, 5),
     first_data_block |-> LE32(b, 21),
     log_block_size   |-> LE32(b, 25),
     blocks_per_group |-> LE32(b, 33),
     inodes_per_group |-> LE32(b, 41),
     magic            |-> LE16(b, 57),
     rev_major        |-> LE32(b, 77),
     inode_size       |-> LE16(b, 89),
     features_ronly   |-> LE32(b, 101)]

BlockGroupDescriptor_cast(b) ==
    [block_usage_addr  |-> LE32(b, 1),
     inode_usage_addr  |-> LE32(b, 5),
     inode_table_block |-> LE32(b, 9)]

RawInode_cast(b) ==
    [type_perm       |-> LE16(b, 1),
     uid             |-> LE16(b, 3),
     size_low        |-> LE32(b, 5),
     hard_links      |-> LE16(b, 27),
     direct_pointer  |-> [k \in 0..(DIRECT_COUNT - 1) |-> LE32(b, 41 + 4 * k)],
     indirect_pointer |-> LE32(b, 89),
     doubly_indirect |-> LE32(b, 93),
     triply_indirect |-> LE32(b, 97),
     size_high       |-> LE32(b, 109)]

OutOfBounds(end, S) ==
    Err([kind |-> "AddressOutOfBounds", sector |-> end.sector,
         offset |-> end.offset, size |-> Pow2(S)])

\* Size::Bounded(n) < end
Size_lt(n, end) == ~Address_ge(n, end)

\* a variant that looks at the magic before the bounds
Superblock_find_magic_first(S, v) ==
    LET offset == Address_from(S, SUPERBLOCK_OFFSET)
        end == Address_add(S, offset, Address_from(S, SUPERBLOCK_SIZE))
        sb == Superblock_cast(Volume_slice_unchecked(S, v, offset, end).inner)
    IN  IF sb.magic # EXT2_MAGIC
        THEN Err([kind |-> "BadMagic", magic |-> sb.magic])
        ELSE IF Size_lt(Volume_size(S, v), end) THEN OutOfBounds(end, S)
        ELSE Ok([inner |-> sb, offset |-> offset])

Superblock_find(S, v) ==
    LET offset == Address_from(S, SUPERBLOCK_OFFSET)
        end == Address_add(S, offset, Address_from(S, SUPERBLOCK_SIZE))
        sb == Superblock_cast(Volume_slice_unchecked(S, v, offset, end).inner)
    IN  IF Size_lt(Volume_size(S, v), end) THEN OutOfBounds(end, S)
        ELSE IF sb.magic # EXT2_MAGIC
             THEN Err([kind |-> "BadMagic", magic |-> sb.magic])
             ELSE Ok([inner |-> sb, offset |-> offset])

\* a variant that counts the full groups only
Superblock_block_group_count_floor(sb) ==
    IF sb.blocks_per_group = 0 \/ sb.inodes_per_group = 0
    THEN [tag |-> "Panic"]
    ELSE IF sb.blocks_count \div sb.blocks_per_group
                = sb.inodes_count \div sb.inodes_per_group
    THEN Ok(sb.blocks_count \div sb.blocks_per_group)
    ELSE Err([kind |-> "BadBlockGroupCount",
              by_blocks |-> sb.blocks_count \div sb.blocks_per_group,
              by_inodes |-> sb.inodes_count \div sb.inodes_per_group])

\* Superblock::block_group_count; a zero divisor panics (u32 % 0)
Superblock_block_group_count(sb) ==
    IF sb.blocks_per_group = 0 \/ sb.inodes_per_group = 0
    THEN [tag |-> "Panic"]
    ELSE LET blocks_mod == sb.blocks_count % sb.blocks_per_group
             inodes_mod == sb.inodes_count % sb.inodes_per_group
             blocks_inc == IF blocks_mod = 0 THEN 0 ELSE 1
             inodes_inc == IF inodes_mod = 0 THEN 0 ELSE 1
             by_blocks == (sb.blocks_count \div sb.blocks_per_group) + blocks_inc
             by_inodes == (sb.inodes_count \div sb.inodes_per_group) + inodes_inc
         IN  IF by_blocks = by_inodes THEN Ok(by_blocks)
             ELSE Err([kind |-> "BadBlockGroupCount",
                       by_blocks |-> by_blocks, by_inodes |-> by_inodes])

BlockGroupDescriptor_find_descriptor(S, v, offset) ==
    LET end == Address_add(S, offset, Address_from(S, DESCRIPTOR_SIZE))
    IN  IF Size_lt(Volume_size(S, v), end) THEN OutOfBounds(end, S)
        ELSE Ok(BlockGroupDescriptor_cast(
                    Volume_slice_unchecked(S, v, offset, end).inner))

BlockGroupDescriptor_find_descriptor_table(S, v, offset, count) ==
    LET end == Address_add(S, offset, Address_from(S, count * DESCRIPTOR_SIZE))
        at(i) == BlockGroupDescriptor_find_descriptor(S, v,
                     Address_add(S, offset, Address_from(S, i * DESCRIPTOR_SIZE)))
    IN  IF Size_lt(Volume_size(S, v), end) THEN OutOfBounds(end, S)
        ELSE IF \E i \in 0..(count - 1) : IsErr(at(i))
             THEN at(CHOOSE i \in 0..(count - 1) :
                        IsErr(at(i)) /\ \A j \in 0..(i - 1) : IsOk(at(j)))
             ELSE Ok([inner |-> [i \in 1..count |-> at(i - 1).val],
                      offset |-> offset])

\* RawInode::find_inode reads one 128-byte record at offset
RawInode_find_inode(S, v, offset, size) ==
    LET end == Address_add(S, offset, Address_from(S, RAW_INODE_SIZE))
    IN  IF Size_lt(Volume_size(S, v), end) THEN OutOfBounds(end, S)
        ELSE Ok([inner |-> RawInode_cast(
                               Volume_slice_unchecked(S, v, offset, end).inner),
                 offset |-> offset])

(***************************************************************************)
(* src/fs/mod.rs: the filesystem handle.                                   *)
(***************************************************************************)
Ext2_new(S, v) ==
    LET found == Superblock_find(S, v)
        superblock == found.val
        block_groups_offset ==
            Address_with_block_size(S,
                superblock.inner.first_data_block + 1, 0,
                superblock.inner.log_block_size + LogBlockBase)
        count == Superblock_block_group_count(superblock.inner)
        block_groups == BlockGroupDescriptor_find_descriptor_table(
                            S, v, block_groups_offset, count.val)
    IN  IF IsErr(found) THEN found
        ELSE IF ~IsOk(count) THEN count
        ELSE IF IsErr(block_groups) THEN block_groups
        ELSE Ok([volume |-> v, superblock |-> superblock,
                 block_groups |-> block_groups.val])

\* a faulty variant: the block size one shift too large
Ext2_block_size_shifted(fs) ==
    2 * Pow2(LogBlockBase) * Pow2(fs.superblock.inner.log_block_size)

Ext2_block_size(fs) == Pow2(LogBlockBase) * Pow2(fs.superblock.inner.log_block_size)
Ext2_log_block_size(fs) == fs.superblock.inner.log_block_size + LogBlockBase
Ext2_inode_size(fs) ==
    IF fs.superblock.inner.rev_major = 0 THEN RAW_INODE_SIZE
    ELSE fs.superblock.inner.inode_size
Ext2_inodes_count(fs) == fs.superblock.inner.inodes_per_group
Ext2_total_inodes_count(fs) == fs.superblock.inner.inodes_count

(***************************************************************************)
(* src/fs/mod.rs, src/fs/sync.rs: the inode block resolver.  The two files *)
(* hold the same code; the synced one takes the mutex first.               *)
(* An Option<NonZero<u32>> is [some, v]; try_block returns its Result in   *)
(* res and, for the properties, the pointer-table slots <<block, index>>   *)
(* it read, in order, in reads.                                            *)
(***************************************************************************)
None == [some |-> FALSE, v |-> 0]
Some(x) == [some |-> TRUE, v |-> x]

(***************************************************************************)
(* src/volume/mod.rs: VolumeSlice::commit, and the file adapter            *)
(* (mod file, Volume<u8, S> for RefCell<File>).  A file is its length and  *)
(* bytes, like the in-memory volume, and whether its metadata can be read. *)
(***************************************************************************)
VolumeCommit_new(inner, index) == [inner |-> inner, index |-> index]

VolumeSlice_commit(slice) ==
    IF VolumeSlice_is_mutated(slice)
    THEN Some(VolumeCommit_new(slice.inner, slice.index))
    ELSE None

\* a variant that also stores the byte in the volume the slice came from
VolumeSlice_store_through(v, slice, k, b) ==
    [volume |-> [v EXCEPT !.data = [a \in DOMAIN v.data \cup { k - 1 } |-> IF a = k - 1 THEN b ELSE v.data[a]]],
     slice |-> [VolumeSlice_as_mut(slice) EXCEPT !.inner[k] = b]]

\* slice.as_mut()[k - 1] = b: to_mut clones a borrowed buffer, the store goes
\* to the clone; k = 0 stands for an access that stores nothing
VolumeSlice_store(v, slice, k, b) ==
    [volume |-> v,
     slice |-> IF k = 0 THEN VolumeSlice_as_mut(slice)
               ELSE [VolumeSlice_as_mut(slice) EXCEPT !.inner[k] = b]]

\* a variant that copies the buffer one element further on
Volume_commit_shifted(S, v, commit) ==
    IF ~commit.some THEN Ok(v)
    ELSE LET index == Address_into_index(S, commit.v.index) + 1
             end == index + Len(commit.v.inner)
         IN  Ok([v EXCEPT !.data =
                    [a \in DOMAIN v.data \cup index..(end - 1) |->
                        IF index <= a /\ a < end THEN commit.v.inner[a - index + 1]
                        ELSE v.data[a]]])

\* impl_slice Volume::commit: the buffer is cloned into [index, end) of the
\* volume; indexing [index..end] panics when end is past the volume
Volume_commit(S, v, commit) ==
    IF ~commit.some THEN Ok(v)
    ELSE LET index == Address_into_index(S, commit.v.index)
             end == index + Len(commit.v.inner)
         IN  IF end > v.len THEN [tag |-> "Panic"]
             ELSE Ok([v EXCEPT !.data =
                        [a \in DOMAIN v.data \cup index..(end - 1) |->
                            IF index <= a /\ a < end THEN commit.v.inner[a - index + 1]
                            ELSE v.data[a]]])

File_size(S, f) ==
    IF f.meta THEN Address_from(S, f.len) ELSE Address_new(S, 0, 0)

\* seek(SeekFrom::Start(pos)) then read_exact of n bytes: a seek past the end
\* succeeds, read_exact fails when fewer than n bytes are left
File_read_exact(f, pos, n) ==
    IF n = 0 THEN Ok(<<>>)
    ELSE IF pos + n <= f.len THEN Ok([k \in 1..n |-> ByteAt(f, pos + k - 1)])
    ELSE Err([kind |-> "Io", err |-> "UnexpectedEof"])

File_slice(S, f, start, end) ==
    LET index == start
        len == Address_into_index(S, Address_sub(S, end, start))
        read == File_read_exact(f, Address_into_index(S, index), len)
    IN  IF IsOk(read) THEN Ok(VolumeSlice_new_owned(read.val, index)) ELSE read
NonZero_new(x) == IF x = 0 THEN None ELSE Some(x)

\* the entry of a pointer table out of the 4 bytes sliced for it
block_entry(slice) ==
    IF IsOk(slice) THEN Ok(NonZero_new(LE32(slice.val.inner, 1))) ELSE slice

block_index(S, volume, block, index, log_block_size) ==
    LET offset == index * POINTER_SIZE
        end_off == offset + POINTER_SIZE
        addr == Address_with_block_size(S, block, offset, log_block_size)
        end == Address_with_block_size(S, block, end_off, log_block_size)
    IN  block_entry(Volume_slice(S, volume, addr, end))

Inode_try_block(S, fs, inner, index0) ==
    LET bs4 == Ext2_block_size(fs) \div POINTER_SIZE
        log_block_size == Ext2_log_block_size(fs)
        look(block, index) == block_index(S, fs.volume, block, index, log_block_size)
        index1 == index0 - DIRECT_COUNT
        index2 == index1 - bs4
        index3 == index2 - bs4 * bs4
    IN  IF index0 < DIRECT_COUNT
        THEN [res |-> Ok(NonZero_new(inner.direct_pointer[index0])), reads |-> <<>>]
        ELSE IF index1 < bs4
        THEN [res |-> look(inner.indirect_pointer, index1),
              reads |-> << <<inner.indirect_pointer, index1>> >>]
        ELSE IF index2 < bs4 * bs4
        THEN LET indirect_index == Shr(index2, log_block_size + 2)
                 first == look(inner.doubly_indirect, indirect_index)
                 r1 == << <<inner.doubly_indirect, indirect_index>> >>
             IN  IF IsErr(first) \/ ~first.val.some
                 THEN [res |-> first, reads |-> r1]
                 ELSE [res |-> look(first.val.v, index2 % bs4),
                       reads |-> Append(r1, <<first.val.v, index2 % bs4>>)]
        ELSE IF index3 < bs4 * bs4 * bs4
        THEN LET doubly_index == Shr(index3, 2 * log_block_size + 4)
                 first == look(inner.triply_indirect, doubly_index)
                 r1 == << <<inner.triply_indirect, doubly_index>> >>
                 indirect_index == Shr(index3, log_block_size + 2) % bs4
                 second == look(first.val.v, indirect_index)
                 r2 == Append(r1, <<first.val.v, indirect_index>>)
             IN  IF IsErr(first) \/ ~first.val.some
                 THEN [res |-> first, reads |-> r1]
                 ELSE IF IsErr(second) \/ ~second.val.some
                 THEN [res |-> second, reads |-> r2]
                 ELSE [res |-> look(second.val.v, index3 % bs4),
                       reads |-> Append(r2, <<second.val.v, index3 % bs4>>)]
        ELSE [res |-> Ok(None), reads |-> <<>>]

\* Inode::block: try_block(index).ok().and_then(|block| block)
Inode_block(S, fs, inner, index) ==
    LET r == Inode_try_block(S, fs, inner, index).res
    IN  IF IsOk(r) THEN r.val ELSE None

(***************************************************************************)
(* InodeBlocks::next (src/fs/sync.rs 579-604, src/fs/mod.rs 454-482).      *)
(* Returns the iterator's new index and the item: "None", "Ok" with the    *)
(* block's bytes and start address, or "Err".                              *)
(***************************************************************************)
InodeBlocks_item(S, fs, index, block) ==
    LET log_block_size == Ext2_log_block_size(fs)
        offset == Address_with_block_size(S, block.val.v, 0, log_block_size)
        end == Address_with_block_size(S, block.val.v + 1, 0, log_block_size)
        slice == Volume_slice(S, fs.volume, offset, end)
    IN  IF IsErr(block)
        THEN [index |-> index, item |-> [tag |-> "Err", err |-> block.err]]
        ELSE IF ~block.val.some
        THEN [index |-> index, item |-> [tag |-> "None"]]
        ELSE IF IsErr(slice)
        THEN [index |-> index + 1, item |-> [tag |-> "Err", err |-> slice.err]]
        ELSE [index |-> index + 1,
              item |-> [tag |-> "Ok", data |-> slice.val.inner, addr |-> offset]]

\* a faulty variant: the iterator resolves the index after the current one
InodeBlocks_next_skipping(S, fs, inner, index) ==
    InodeBlocks_item(S, fs, index + 1, Inode_try_block(S, fs, inner, index + 1).res)

InodeBlocks_next(S, fs, inner, index) ==
    InodeBlocks_item(S, fs, index, Inode_try_block(S, fs, inner, index).res)

(***************************************************************************)
(* src/fs/sync.rs: inode enumeration.  inodes_nth asserts index > 0 and    *)
(* snapshots the geometry; Inodes::next projects one inode per call.       *)
(* An inode handle is [num, inner, addr].                                  *)
(***************************************************************************)
Synced_inodes_nth(fs, index) ==
    [log_block_size   |-> Ext2_log_block_size(fs),
     inode_size       |-> Ext2_inode_size(fs),
     inodes_per_group |-> Ext2_inodes_count(fs),
     inodes_count     |-> Ext2_total_inodes_count(fs),
     index            |-> index]

\* a variant that counts the inodes from 0
Inodes_next_zero_based(S, fs, it) ==
    LET block_group == it.index \div it.inodes_per_group
        index == it.index % it.inodes_per_group
        next == [it EXCEPT !.index = it.index + 1]
        inodes_block == fs.block_groups.inner[block_group + 1].inode_table_block
        offset == Address_with_block_size(S, inodes_block,
                      index * it.inode_size, it.log_block_size)
        raw == RawInode_find_inode(S, fs.volume, offset, it.inode_size)
    IN  IF it.index < it.inodes_count
        THEN IF block_group >= Len(fs.block_groups.inner)
             THEN [it |-> next, item |-> [tag |-> "Panic"]]
             ELSE IF IsOk(raw)
             THEN [it |-> next,
                   item |-> [tag |-> "Some",
                             inode |-> [num |-> next.index - 1,
                                        inner |-> raw.val.inner,
                                        addr |-> raw.val.offset]]]
             ELSE [it |-> next, item |-> [tag |-> "None"]]
        ELSE [it |-> it, item |-> [tag |-> "None"]]

Inodes_next(S, fs, it) ==
    LET block_group == (it.index - 1) \div it.inodes_per_group
        index == (it.index - 1) % it.inodes_per_group
        next == [it EXCEPT !.index = it.index + 1]
        inodes_block == fs.block_groups.inner[block_group + 1].inode_table_block
        offset == Address_with_block_size(S, inodes_block,
                      index * it.inode_size, it.log_block_size)
        raw == RawInode_find_inode(S, fs.volume, offset, it.inode_size)
    IN  IF it.index < it.inodes_count
        THEN IF block_group >= Len(fs.block_groups.inner)
             THEN [it |-> next, item |-> [tag |-> "Panic"]]
             ELSE IF IsOk(raw)
             THEN [it |-> next,
                   item |-> [tag |-> "Some",
                             inode |-> [num |-> next.index - 1,
                                        inner |-> raw.val.inner,
                                        addr |-> raw.val.offset]]]
             ELSE [it |-> next, item |-> [tag |-> "None"]]
        ELSE [it |-> it, item |-> [tag |-> "None"]]

\* inode_nth(index) = inodes_nth(index).next(); index = 0 fails the assert
Synced_inode_nth(S, fs, index) ==
    IF index > 0 THEN Inodes_next(S, fs, Synced_inodes_nth(fs, index)).item
    ELSE [tag |-> "Panic"]

(***************************************************************************)
(* src/fs/sync.rs: Inode::size (64-bit targets) and File::read.            *)
(***************************************************************************)
Inode_size(inner) == inner.size_low + inner.size_high * 65536 * 65536

\* size32 and size64; a 64-bit number is written as its two 32-bit halves
Inode_size32(inner) == [low |-> inner.size_low, high |-> 0]
Inode_size64(inner) == [low |-> inner.size_low, high |-> inner.size_high]
\* size(), as compiled for 64-bit and for 32-bit pointers
Inode_size_on(width, inner) ==
    IF width = 64 THEN Inode_size64(inner) ELSE Inode_size32(inner)

RECURSIVE read_loop(_, _, _, _, _, _)

\* the body of the for loop, for one item of the blocks() iterator
read_block(S, fs, inner, offset, buf, step) ==
    LET total_size == Inode_size(inner)
        block_size == Ext2_block_size(fs)
        data_size == Min(Min(block_size, total_size - offset), Len(buf) - offset)
        end == offset + data_size
    IN  IF step.item.tag = "None" THEN [res |-> Ok(offset), buf |-> buf]
        ELSE IF step.item.tag = "Err" THEN [res |-> Err(step.item.err), buf |-> buf]
        \* buf[offset..end] and block[..data_size] are bounds-checked slices
        ELSE IF end > Len(buf) \/ data_size > Len(step.item.data)
        THEN [res |-> [tag |-> "Panic"], buf |-> buf]
        ELSE read_loop(S, fs, inner, step.index, end,
                       SubSeq(buf, 1, offset) \o SubSeq(step.item.data, 1, data_size)
                           \o SubSeq(buf, end + 1, Len(buf)))

read_loop(S, fs, inner, index, offset, buf) ==
    read_block(S, fs, inner, offset, buf, InodeBlocks_next(S, fs, inner, index))

\* a faulty variant: the copy starts at the second block of the file
Inode_read_from_second(S, fs, inner, buf) == read_loop(S, fs, inner, 1, 0, buf)

Inode_read(S, fs, inner, buf) == read_loop(S, fs, inner, 0, 0, buf)

(***************************************************************************)
(* src/fs/sync.rs: the directory walker.  A Directory is the index of its  *)
(* blocks() iterator, the cursor offset, the buffered block and the block  *)
(* size.  Directory::next returns the walker's new state and the item:     *)
(* "None", "Err", "Ok" with the entry [name, inode, ty] (and, for the      *)
(* properties, the rec_len and name_len it decoded), or "Panic" when a     *)
(* slice or an index of the decoder is out of the buffer's bounds.         *)
(***************************************************************************)
\* TypePerm::contains(DIRECTORY): the bit 0x4000 is set
Inode_is_dir(inner) == (inner.type_perm \div DIRECTORY) % 2 = 1

Inode_directory(fs, inner) ==
    IF Inode_is_dir(inner)
    THEN Some([blocks |-> 0, offset |-> 0, buffer |-> None,
               block_size |-> Ext2_block_size(fs)])
    ELSE None

\* the decoder, on the bytes of the buffered block from the cursor on
Directory_decode(dir, buffer) ==
    IF Len(buffer) < 4 THEN [dir |-> dir, item |-> [tag |-> "Panic"]]
    ELSE IF LE32(buffer, 1) = 0 THEN [dir |-> dir, item |-> [tag |-> "None"]]
    ELSE IF Len(buffer) < DIRENT_HEADER \/ DIRENT_HEADER + buffer[7] > Len(buffer)
    THEN [dir |-> dir, item |-> [tag |-> "Panic"]]
    ELSE [dir |-> [dir EXCEPT !.offset = dir.offset + LE16(buffer, 5)],
          item |-> [tag |-> "Ok",
                    entry |-> [name |-> SubSeq(buffer, DIRENT_HEADER + 1,
                                               DIRENT_HEADER + buffer[7]),
                               inode |-> LE32(buffer, 1),
                               ty |-> buffer[8]],
                    rec_len |-> LE16(buffer, 5),
                    name_len |-> buffer[7]]]

Directory_entry(dir) ==
    IF dir.offset > Len(dir.buffer.v)
    THEN [dir |-> dir, item |-> [tag |-> "Panic"]]
    ELSE Directory_decode(dir, SubSeq(dir.buffer.v, dir.offset + 1, Len(dir.buffer.v)))

\* the refill of the buffer from the item blocks.next() returned
Directory_fetch(dir, step) ==
    IF step.item.tag = "None"
    THEN [dir |-> [dir EXCEPT !.blocks = step.index], item |-> [tag |-> "None"]]
    ELSE IF step.item.tag = "Err"
    THEN [dir |-> [dir EXCEPT !.blocks = step.index],
          item |-> [tag |-> "Err", err |-> step.item.err]]
    ELSE Directory_entry([dir EXCEPT !.blocks = step.index,
                                     !.buffer = Some(step.item.data),
                                     !.offset = 0])

Directory_next(S, fs, inner, dir) ==
    IF ~dir.buffer.some \/ dir.offset >= dir.block_size
    THEN Directory_fetch(dir, InodeBlocks_next(S, fs, inner, dir.blocks))
    ELSE Directory_entry(dir)

(***************************************************************************)
(* src/fs/sync.rs: Synced<Ext2>::open.  A path is a sequence of bytes.     *)
(* Iterator::find calls next() until an item satisfies the predicate; a    *)
(* call that leaves the walker as it was and yields an item the predicate  *)
(* rejects repeats forever: the result is then "Diverges".                 *)
(***************************************************************************)
\* abs_path.split(|byte| *byte == b'/'): the subslices between the slashes
Separators(p) == { i \in 1..Len(p) : p[i] = SLASH }
SeparatorAt(p, k) ==
    IF k = 0 THEN 0
    ELSE IF k > Cardinality(Separators(p)) THEN Len(p) + 1
    ELSE CHOOSE i \in Separators(p) :
             Cardinality({ j \in Separators(p) : j < i }) = k - 1
Split(p) ==
    [k \in 1..(Cardinality(Separators(p)) + 1) |->
        SubSeq(p, SeparatorAt(p, k - 1) + 1, SeparatorAt(p, k) - 1)]

RECURSIVE Directory_find(_, _, _, _, _)

\* a variant that takes the first entry whose name has the length of the
\* name looked for
find_item_by_length(S, fs, inner, dir, name, step) ==
    IF step.item.tag = "None" THEN [tag |-> "None"]
    ELSE IF step.item.tag = "Panic" THEN [tag |-> "Panic"]
    ELSE IF step.item.tag = "Err" THEN [tag |-> "Some", item |-> step.item]
    ELSE IF Len(step.item.entry.name) = Len(name)
    THEN [tag |-> "Some", item |-> step.item]
    ELSE IF step.dir = dir THEN [tag |-> "Diverges"]
    ELSE Directory_find(S, fs, inner, step.dir, name)

find_item(S, fs, inner, dir, name, step) ==
    IF step.item.tag = "None" THEN [tag |-> "None"]
    ELSE IF step.item.tag = "Panic" THEN [tag |-> "Panic"]
    ELSE IF step.item.tag = "Err" THEN [tag |-> "Some", item |-> step.item]
    ELSE IF step.item.entry.name = name THEN [tag |-> "Some", item |-> step.item]
    ELSE IF step.dir = dir THEN [tag |-> "Diverges"]
    ELSE Directory_find(S, fs, inner, step.dir, name)

\* dir.find(|entry| entry.is_err() || entry.as_ref().unwrap().name == name)
Directory_find(S, fs, inner, dir, name) ==
    find_item(S, fs, inner, dir, name, Directory_next(S, fs, inner, dir))

Synced_root_inode(S, fs) == Synced_inode_nth(S, fs, ROOT_INODE)

RECURSIVE open_inner(_, _, _, _, _)

\* fs.inode_nth(entry.inode).ok_or(InodeNotFound { inode: inode.num })
open_child(S, fs, inode, path, abs_path, child) ==
    IF child.tag = "Some" THEN open_inner(S, fs, child.inode, Tail(path), abs_path)
    ELSE IF child.tag = "Panic" THEN [tag |-> "Panic"]
    ELSE Err([kind |-> "InodeNotFound", inode |-> inode.num])

\* .ok_or_else(|| NotFound { name: abs_path })??
open_found(S, fs, inode, path, abs_path, found) ==
    IF found.tag = "None" THEN Err([kind |-> "NotFound", name |-> abs_path])
    ELSE IF found.tag \in {"Panic", "Diverges"} THEN [tag |-> found.tag]
    ELSE IF found.item.tag = "Err" THEN Err(found.item.err)
    ELSE open_child(S, fs, inode, path, abs_path,
                    Synced_inode_nth(S, fs, found.item.entry.inode))

\* inode.directory().ok_or_else(|| NotADirectory { inode: inode.num, name })?
open_dir(S, fs, inode, path, abs_path, dir) ==
    IF ~dir.some
    THEN Err([kind |-> "NotADirectory", inode |-> inode.num, name |-> abs_path])
    ELSE open_found(S, fs, inode, path, abs_path,
                    Directory_find(S, fs, inode.inner, dir.v, Head(path)))

open_inner(S, fs, inode, path, abs_path) ==
    IF path = <<>> THEN Ok(inode)
    ELSE open_dir(S, fs, inode, path, abs_path, Inode_directory(fs, inode.inner))

\* root_inode() unwraps inode_nth(2)
open_root(S, fs, abs_path, root) ==
    IF root.tag # "Some" THEN [tag |-> "Panic"]
    ELSE IF abs_path = <<SLASH>> THEN Ok(root.inode)
    ELSE open_inner(S, fs, root.inode, Tail(Split(abs_path)), abs_path)

Synced_open(S, fs, abs_path) ==
    IF Len(abs_path) = 0 \/ abs_path[1] # SLASH
    THEN Err([kind |-> "NotAbsolute", name |-> abs_path])
    ELSE open_root(S, fs, abs_path, Synced_root_inode(S, fs))

(***************************************************************************)
(* Volume images.  An image is written as a set of <<address, byte>>       *)
(* pairs; MkVolume turns it into a volume of a given length.  The layout   *)
(* is ext2's: superblock at byte 1024, the descriptor table in the block   *)
(* after first_data_block, two groups of three 128-byte inodes, then data. *)
(***************************************************************************)
Word(addr, x) == { <<addr + k, (x \div (256 ^ k)) % 256>> : k \in 0..3 }
Half(addr, x) == { <<addr, x % 256>>, <<addr + 1, (x \div 256) % 256>> }
Override(PB, QB) == { p \in PB : \A q \in QB : q[1] # p[1] } \cup QB
MkVolume(len, PB) ==
    [len |-> len,
     data |-> [a \in { p[1] : p \in PB } |-> (CHOOSE p \in PB : p[1] = a)[2]]]

GDT_ADDR == SUPERBLOCK_OFFSET + SUPERBLOCK_SIZE
ITAB0_ADDR == GDT_ADDR + 2 * DESCRIPTOR_SIZE
ITAB1_ADDR == ITAB0_ADDR + 3 * RAW_INODE_SIZE
DATA_ADDR == ITAB1_ADDR + 3 * RAW_INODE_SIZE
InodeAddr(n) ==
    (IF n <= 3 THEN ITAB0_ADDR ELSE ITAB1_ADDR) + ((n - 1) % 3) * RAW_INODE_SIZE

BlockSizeOf(s) == Pow2(LogBlockBase + s)

SuperblockBytes(s, inodes_count, blocks_count) ==
    Word(SUPERBLOCK_OFFSET, inodes_count)
    \cup Word(SUPERBLOCK_OFFSET + 4, blocks_count)
    \cup Word(SUPERBLOCK_OFFSET + 20, (GDT_ADDR \div BlockSizeOf(s)) - 1)
    \cup Word(SUPERBLOCK_OFFSET + 24, s)
    \cup Word(SUPERBLOCK_OFFSET + 32, (blocks_count + 1) \div 2)
    \cup Word(SUPERBLOCK_OFFSET + 40, 3)
    \cup Half(SUPERBLOCK_OFFSET + 56, EXT2_MAGIC)
    \cup Word(GDT_ADDR + 8, ITAB0_ADDR \div BlockSizeOf(s))
    \cup Word(GDT_ADDR + DESCRIPTOR_SIZE + 8, ITAB1_ADDR \div BlockSizeOf(s))

\* direct is a function on 0..11
InodeBytes(n, type_perm, size, direct, ind, dbl, tpl) ==
    Half(InodeAddr(n), type_perm)
    \cup Word(InodeAddr(n) + 4, size)
    \cup Half(InodeAddr(n) + 26, 1)
    \cup UNION { Word(InodeAddr(n) + 40 + 4 * k, direct[k]) : k \in 0..(DIRECT_COUNT - 1) }
    \cup Word(InodeAddr(n) + 88, ind)
    \cup Word(InodeAddr(n) + 92, dbl)
    \cup Word(InodeAddr(n) + 96, tpl)

(***************************************************************************)
(* The file of inode 3.  Logical blocks 0 .. K-1 are allocated in order    *)
(* from the first data block: the twelve direct blocks, the whole indirect *)
(* block and DoubleBlocks blocks of the first doubly-indirect leaf.  Past  *)
(* a hole the file also has its last doubly-indirect block and the first   *)
(* TripleBlocks blocks of the triply-indirect region.  The pointer blocks  *)
(* are laid out as ext2 prescribes (entry e of the indirect block names    *)
(* logical block 12+e, entry j of the doubly-indirect block names the      *)
(* block whose entry e names logical block 12+n4+j*n4+e, and so on).       *)
(* The i-th data block carries the marks 1 + i % 100 in its first byte and  *)
(* 101 + i % 50 in the first byte of its last word, so that a data block   *)
(* read as a pointer block names blocks too.                               *)
(***************************************************************************)
N4Of(s) == BlockSizeOf(s) \div POINTER_SIZE
FileBlocks(s) == DIRECT_COUNT + N4Of(s) + DoubleBlocks
DataBlocks(s) == FileBlocks(s) + 1 + TripleBlocks
Phys(s, i) == (DATA_ADDR \div BlockSizeOf(s)) + i
FarBlk(s) == Phys(s, FileBlocks(s))
TplData(s, e) == Phys(s, FileBlocks(s) + 1 + e)
IndBlk(s) == Phys(s, DataBlocks(s))
DblTop(s) == IndBlk(s) + 1
DblLeaf(s) == IndBlk(s) + 2
DblLast(s) == IndBlk(s) + 3
TplTop(s) == IndBlk(s) + 4
TplMid(s) == IndBlk(s) + 5
TplLeaf(s) == IndBlk(s) + 6
EndBlk(s) == IndBlk(s) + 7
\* a block number past the end of every image
OutBlk(s) == EndBlk(s) + 40

FileTree(s) ==
    LET bs == BlockSizeOf(s)
        n4 == N4Of(s)
    IN  UNION { Word(IndBlk(s) * bs + 4 * e, Phys(s, 12 + e)) : e \in 0..(n4 - 1) }
        \cup Word(DblTop(s) * bs, DblLeaf(s))
        \cup Word(DblTop(s) * bs + 4 * (n4 - 1), DblLast(s))
        \cup UNION { Word(DblLeaf(s) * bs + 4 * e, Phys(s, 12 + n4 + e)) :
                       e \in 0..(DoubleBlocks - 1) }
        \cup Word(DblLast(s) * bs + 4 * (n4 - 1), FarBlk(s))
        \cup Word(TplTop(s) * bs, TplMid(s))
        \cup Word(TplMid(s) * bs, TplLeaf(s))
        \cup UNION { Word(TplLeaf(s) * bs + 4 * e, TplData(s, e)) :
                       e \in 0..(TripleBlocks - 1) }
        \cup { <<Phys(s, i) * bs, 1 + (i % 100)>> : i \in 0..(DataBlocks(s) - 1) }
        \cup { <<Phys(s, i) * bs + bs - POINTER_SIZE, 101 + (i % 50)>> :
                   i \in 0..(DataBlocks(s) - 1) }

FileInode(s, size) ==
    InodeBytes(3, FILE + 420, size, [k \in 0..(DIRECT_COUNT - 1) |-> Phys(s, k)],
               IndBlk(s), DblTop(s), TplTop(s))

\* the root directory of the block images: one block holding "." -> 2
RootBlk(s) == EndBlk(s)
PlainRoot(s) ==
    InodeBytes(2, DIRECTORY + 493, BlockSizeOf(s),
               [k \in 0..(DIRECT_COUNT - 1) |-> IF k = 0 THEN RootBlk(s) ELSE 0], 0, 0, 0)
    \cup Word(RootBlk(s) * BlockSizeOf(s), 2)
    \cup Half(RootBlk(s) * BlockSizeOf(s) + 4, BlockSizeOf(s))
    \cup { <<RootBlk(s) * BlockSizeOf(s) + 6, 1>>, <<RootBlk(s) * BlockSizeOf(s) + 8, 46>> }

ImageBlocks(s) == EndBlk(s) + 2
BaseImage(s, size) ==
    SuperblockBytes(s, 6, ImageBlocks(s)) \cup FileTree(s) \cup FileInode(s, size)
    \cup PlainRoot(s)

(***************************************************************************)
(* The images of the block resolver's specification: the intact file with  *)
(* several sizes, and the file with one pointer of its walk overwritten by *)
(* 0 (a hole) or by a block outside the volume, with block 0 of the volume *)
(* either zero or filled with the number of an allocated block.            *)
(***************************************************************************)
PatchAddrs(s) ==
    LET bs == BlockSizeOf(s)
    IN  { InodeAddr(3) + 40, InodeAddr(3) + 40 + 4 * 5, InodeAddr(3) + 88,
          InodeAddr(3) + 92, InodeAddr(3) + 96,
          IndBlk(s) * bs, IndBlk(s) * bs + 4 * (N4Of(s) - 1),
          DblTop(s) * bs, DblTop(s) * bs + 4 * (N4Of(s) - 1), DblLeaf(s) * bs + 4,
          TplTop(s) * bs, TplMid(s) * bs, TplLeaf(s) * bs + 4 }

Block0Garbage(s) == UNION { Word(4 * e, Phys(s, 2)) : e \in 0..(N4Of(s) - 1) }

FileSizes(s) ==
    { 0, 5, BlockSizeOf(s), FileBlocks(s) * BlockSizeOf(s) - 3,
      (FileBlocks(s) + 1) * BlockSizeOf(s) + 2 }

BlockImages(s) ==
    { MkVolume(ImageBlocks(s) * BlockSizeOf(s), BaseImage(s, size)) : size \in FileSizes(s) }
    \cup { MkVolume(ImageBlocks(s) * BlockSizeOf(s),
                    Override(BaseImage(s, FileBlocks(s) * BlockSizeOf(s) - 3),
                             Word(a, x) \cup (IF g THEN Block0Garbage(s) ELSE {}))) :
             a \in PatchAddrs(s), x \in {0, OutBlk(s)}, g \in BOOLEAN }

(***************************************************************************)
(* The images of the directory specification, with 2^(LogBlockBase+1)-byte *)
(* blocks.  Inode 2 is the root, a directory of two blocks; inode 3 is the *)
(* directory /a, inode 5 the directory /b, inodes 4 and 6 regular files:   *)
(*   root, first block : a -> 3, b -> 5, ab -> 4                           *)
(*   root, second block: a -> 4, bb -> 6, ba -> 9 (no such inode)          *)
(*   /a                : b -> 4, a -> 3                                    *)
(*   /b                : a -> 4, b -> 2                                    *)
(* An entry is inode(4) rec_len(2) name_len(1) type(1) name; the last      *)
(* entry of a block has the rec_len that ends the block.                   *)
(***************************************************************************)
NameA == <<97>>
NameB == <<98>>
DirentRaw(addr, ino, rec_len, name_len, name) ==
    Word(addr, ino) \cup Half(addr + 4, rec_len)
    \cup { <<addr + 6, name_len>>, <<addr + 7, 1>> }
    \cup { <<addr + 7 + k, name[k]>> : k \in 1..Len(name) }
Dirent(addr, ino, rec_len, name) == DirentRaw(addr, ino, rec_len, Len(name), name)

\* the rec_len of the entries that do not end a block: the header and room
\* for a name of two bytes
ShortRec == DIRENT_HEADER + 2
RootA(s) == Phys(s, 0)
RootB(s) == Phys(s, 1)
DirA(s) == Phys(s, 2)
DirB(s) == Phys(s, 3)
FileBlock(s) == Phys(s, 4)
DirImageBlocks(s) == Phys(s, 7)
DirOutBlk(s) == Phys(s, 40)

\* three entries filling the block at block number blk
DirBlock(s, blk, e1, e2, e3) ==
    LET at == blk * BlockSizeOf(s)
    IN  Dirent(at, e1[1], ShortRec, e1[2])
        \cup Dirent(at + ShortRec, e2[1], ShortRec, e2[2])
        \cup Dirent(at + 2 * ShortRec, e3[1], BlockSizeOf(s) - 2 * ShortRec, e3[2])
\* two entries filling the block
DirBlock2(s, blk, e1, e2) ==
    LET at == blk * BlockSizeOf(s)
    IN  Dirent(at, e1[1], ShortRec, e1[2])
        \cup Dirent(at + ShortRec, e2[1], BlockSizeOf(s) - ShortRec, e2[2])

OneBlock(blk) == [k \in 0..(DIRECT_COUNT - 1) |-> IF k = 0 THEN blk ELSE 0]
DirImage(s) ==
    SuperblockBytes(s, 6, DirImageBlocks(s))
    \cup InodeBytes(2, DIRECTORY + 493, 2 * BlockSizeOf(s),
                    [k \in 0..(DIRECT_COUNT - 1) |->
                        IF k = 0 THEN RootA(s) ELSE IF k = 1 THEN RootB(s) ELSE 0],
                    0, 0, 0)
    \cup InodeBytes(3, DIRECTORY + 493, BlockSizeOf(s), OneBlock(DirA(s)), 0, 0, 0)
    \cup InodeBytes(4, FILE + 420, 5, OneBlock(FileBlock(s)), 0, 0, 0)
    \cup InodeBytes(5, DIRECTORY + 493, BlockSizeOf(s), OneBlock(DirB(s)), 0, 0, 0)
    \cup InodeBytes(6, FILE + 420, 0, OneBlock(0), 0, 0, 0)
    \cup DirBlock(s, RootA(s), <<3, NameA>>, <<5, NameB>>, <<4, NameA \o NameB>>)
    \cup DirBlock(s, RootB(s), <<4, NameA>>, <<6, NameB \o NameB>>,
                  <<9, NameB \o NameA>>)
    \cup DirBlock2(s, DirA(s), <<4, NameB>>, <<3, NameA>>)
    \cup DirBlock2(s, DirB(s), <<4, NameA>>, <<2, NameB>>)
    \cup { <<FileBlock(s) * BlockSizeOf(s), 7>> }

\* what an image differs from DirImage in: nothing; inode 5 is a block
\* device (type 0x6000) with the same block; the second entry of the root
\* has inode 0; the root's second block is outside the volume; and, in the
\* root's second block, a first entry of rec_len 8 that holds no room for
\* its name, a first entry of rec_len 0, a last entry whose name_len
\* reaches past the block, and a second entry whose rec_len leaves four
\* bytes of the block; inode 4 is a symbolic link (type 0xA000) to /a, the
\* target stored in the inode
DirPatches(s) ==
    LET bs == BlockSizeOf(s)
    IN  { {},
          Half(InodeAddr(5), DIRECTORY + 8192 + 493),
          Half(InodeAddr(4), SYMLINK + 511)
              \cup { <<InodeAddr(4) + 40, SLASH>>, <<InodeAddr(4) + 41, NameA[1]>> },
          Word(RootA(s) * bs + ShortRec, 0),
          Word(InodeAddr(2) + 40 + 4, DirOutBlk(s)),
          Half(RootB(s) * bs + 4, DIRENT_HEADER),
          Half(RootB(s) * bs + 4, 0),
          { <<RootB(s) * bs + 2 * ShortRec + 6, bs>> },
          Half(RootB(s) * bs + ShortRec + 4, bs - ShortRec - 4) }

DirImages(s) ==
    { MkVolume(DirImageBlocks(s) * BlockSizeOf(s), Override(DirImage(s), P)) :
        P \in DirPatches(s) }

\* the paths open is called with: the byte strings over '/', 'a', 'b'
PathBytes == {SLASH} \cup { NameA[1], NameB[1] }
Paths == UNION { [1..n -> PathBytes] : n \in 0..MaxPathLen }

(***************************************************************************)
(* The images of the inode enumeration: the directory image with           *)
(* inodes_count 4, 5 or 6 (two groups of three inodes either way), whole   *)
(* or cut after the record of inode 4, so that inodes 5 and 6 lie past the *)
(* end of the volume.                                                      *)
(***************************************************************************)
InodeImages(s) ==
    { MkVolume(len, Override(DirImage(s), Word(SUPERBLOCK_OFFSET, n))) :
        n \in {4, 5, 6},
        len \in { DirImageBlocks(s) * BlockSizeOf(s), InodeAddr(4) + RAW_INODE_SIZE } }

(***************************************************************************)
(* State.                                                                  *)
(***************************************************************************)
VARIABLES
    fs,       \* the Ext2 handle: volume, cached superblock, cached descriptors
    inode,    \* the inode handle the operations below are called on
    probe,    \* the last try_block / block call and its result
    blocks,   \* the InodeBlocks iterator and the item of its last next()
    rd,       \* the last read call: buffer length, result, buffer
    dir,      \* the Directory walker of inode and the item of its last next()
    walk,     \* the last open call: path and result
    nth,      \* the last inode_nth call: index and result
    inodes,   \* the Inodes iterator, the item of its last next(), the
              \* numbers of the inodes it has yielded
    mnt,      \* a raw volume and the result of Superblock::find / Ext2::new on it
    adr,      \* the last Address operation: sector size, operands, result
    vsl,      \* a volume, the slice taken from it and what was done with it
    lock,     \* Synced: the thread that holds the mutex, 0 when it is free
    cursor,   \* the position of the shared file
    thr       \* per thread: the calls it makes, where it is, what it has read

syncVars == <<lock, cursor, thr>>
vars == <<fs, inode, probe, blocks, rd, dir, walk, nth, inodes, mnt, adr, vsl,
          lock, cursor, thr>>
lowVars == <<mnt, adr, vsl, lock, cursor, thr>>
blockVars == <<probe, blocks, rd>>
dirVars == <<dir, walk>>
inodeVars == <<nth, inodes>>

S == LogSectorSize

TotalIndex == DIRECT_COUNT + N4Of(0) + N4Of(0) * N4Of(0) + N4Of(0) * N4Of(0) * N4Of(0)
Indices == 0..(TotalIndex + ExtraIndex)
BufLens ==
    { 0, 1, BlockSizeOf(0) - 1, BlockSizeOf(0) + 1, 12 * BlockSizeOf(0),
      13 * BlockSizeOf(0), FileBlocks(0) * BlockSizeOf(0) - 3,
      (FileBlocks(0) + 2) * BlockSizeOf(0) }
\* the byte a fresh buffer is filled with; the data blocks of the images
\* carry no such byte
UNTOUCHED == 170

\* no operation has been called yet
IdleFs ==
    /\ probe = [op |-> "none"]
    /\ blocks = [index |-> 0, item |-> [tag |-> "New"], at |-> 0]
    /\ rd = [op |-> "none"]
    /\ dir = [op |-> "none"]
    /\ walk = [op |-> "none"]
    /\ nth = [op |-> "none"]
    /\ inodes = [op |-> "none"]
IdleMount == mnt = [op |-> "none"]
IdleAddr == adr = [op |-> "none"]
IdleVol == vsl = [op |-> "none"]
IdleSync == lock = 0 /\ cursor = 0 /\ thr = <<>>
Idle == IdleFs /\ IdleMount /\ IdleAddr /\ IdleVol /\ IdleSync

\* Ext2::new on the image, then inode_nth(n)
Mounted(img, n) ==
    /\ IsOk(Ext2_new(S, img))
    /\ fs = Ext2_new(S, img).val
    /\ Synced_inode_nth(S, fs, n).tag = "Some"
    /\ inode = Synced_inode_nth(S, fs, n).inode

Init == (\E img \in BlockImages(0) : Mounted(img, 3)) /\ Idle

\* The client of a behaviour uses the inode for one thing: one try_block or
\* block call, or one read, or a walk of one blocks() iterator.  The
\* operations only read the filesystem, so nothing is lost by not mixing them.
Fresh == probe.op = "none" /\ blocks.item.tag = "New" /\ rd.op = "none"

TryBlock(i) ==
    /\ Fresh
    /\ probe' = [op |-> "try_block", index |-> i,
                 out |-> Inode_try_block(S, fs, inode.inner, i)]
    /\ UNCHANGED <<fs, inode, blocks, rd, dirVars, inodeVars, lowVars>>

Block(i) ==
    /\ Fresh
    /\ probe' = [op |-> "block", index |-> i,
                 out |-> Inode_block(S, fs, inode.inner, i)]
    /\ UNCHANGED <<fs, inode, blocks, rd, dirVars, inodeVars, lowVars>>

\* blocks.next() on the iterator inode.blocks() made (index 0); at records
\* the index the call started from
BlocksNext ==
    /\ probe.op = "none" /\ rd.op = "none"
    /\ blocks' = InodeBlocks_next(S, fs, inode.inner, blocks.index)
                     @@ [at |-> blocks.index]
    /\ UNCHANGED <<fs, inode, probe, rd, dirVars, inodeVars, lowVars>>

Read(len) ==
    /\ Fresh
    /\ rd' = [op |-> "read", len |-> len,
              out |-> Inode_read(S, fs, inode.inner, [k \in 1..len |-> UNTOUCHED])]
    /\ UNCHANGED <<fs, inode, probe, blocks, dirVars, inodeVars, lowVars>>

Next ==
    \/ \E i \in Indices : TryBlock(i)
    \/ \E i \in Indices : Block(i)
    \/ BlocksNext
    \/ \E len \in BufLens : Read(len)

Spec == Init /\ [][Next]_vars

(***************************************************************************)
(* The directory specification: on a directory image, a client takes the   *)
(* directory walker of one inode and steps it, or opens one path.          *)
(***************************************************************************)
InitDir == (\E img \in DirImages(1) : Mounted(img, ROOT_INODE)) /\ Idle

\* inode_nth(n), then directory() on the inode
TakeDirectory(n) ==
    /\ dir.op = "none" /\ walk.op = "none"
    /\ Synced_inode_nth(S, fs, n).tag = "Some"
    /\ inode' = Synced_inode_nth(S, fs, n).inode
    /\ dir' = [op |-> "directory", calls |-> 0,
               state |-> Inode_directory(fs, Synced_inode_nth(S, fs, n).inode.inner),
               item |-> [tag |-> "New"]]
    /\ UNCHANGED <<fs, blockVars, walk, inodeVars, lowVars>>

\* dir.next(); from records the walker the call started from; a call that
\* panics ends the walk
DirectoryNext ==
    /\ dir.op = "directory" /\ dir.state.some /\ dir.item.tag # "Panic"
    /\ dir.calls < MaxCalls
    /\ dir' = [op |-> "directory", calls |-> dir.calls + 1,
               state |-> Some(Directory_next(S, fs, inode.inner, dir.state.v).dir),
               item |-> Directory_next(S, fs, inode.inner, dir.state.v).item,
               from |-> dir.state.v,
               before |-> dir.item.tag]
    /\ UNCHANGED <<fs, inode, blockVars, walk, inodeVars, lowVars>>

Open(path) ==
    /\ dir.op = "none" /\ walk.op = "none"
    /\ walk' = [op |-> "open", path |-> path, out |-> Synced_open(S, fs, path)]
    /\ UNCHANGED <<fs, inode, blockVars, dir, inodeVars, lowVars>>

NextDir ==
    \/ \E n \in 1..MaxInodeArg : TakeDirectory(n)
    \/ DirectoryNext
    \/ \E path \in Paths : Open(path)

SpecDir == InitDir /\ [][NextDir]_vars

(***************************************************************************)
(* The inode enumeration: a client calls inode_nth(n) once, or takes the   *)
(* iterator inodes_nth(n) (inodes() is inodes_nth(1)) and steps it.        *)
(***************************************************************************)
InitInodes ==
    (\E s \in {0, 1} : \E img \in InodeImages(s) : Mounted(img, ROOT_INODE)) /\ Idle

InodeNth(n) ==
    /\ nth.op = "none" /\ inodes.op = "none"
    /\ nth' = [op |-> "inode_nth", n |-> n, out |-> Synced_inode_nth(S, fs, n)]
    /\ UNCHANGED <<fs, inode, blockVars, dirVars, inodes, lowVars>>

\* inodes_nth(n), n > 0
InodesNth(n) ==
    /\ nth.op = "none" /\ inodes.op = "none"
    /\ n > 0
    /\ inodes' = [op |-> "inodes", start |-> n, it |-> Synced_inodes_nth(fs, n),
                  item |-> [tag |-> "New"], yielded |-> <<>>, calls |-> 0]
    /\ UNCHANGED <<fs, inode, blockVars, dirVars, nth, lowVars>>

\* inodes.next(); a call that panics ends the walk
InodesNext ==
    /\ inodes.op = "inodes" /\ inodes.item.tag # "Panic"
    /\ inodes.calls < MaxCalls
    /\ inodes' = [inodes EXCEPT
                    !.it = Inodes_next(S, fs, inodes.it).it,
                    !.item = Inodes_next(S, fs, inodes.it).item,
                    !.yielded =
                        IF Inodes_next(S, fs, inodes.it).item.tag = "Some"
                        THEN Append(@, Inodes_next(S, fs, inodes.it).item.inode.num)
                        ELSE @,
                    !.calls = @ + 1]
    /\ UNCHANGED <<fs, inode, blockVars, dirVars, nth, lowVars>>

NextInodes ==
    \/ \E n \in 0..MaxInodeArg : InodeNth(n)
    \/ \E n \in 1..MaxInodeArg : InodesNth(n)
    \/ InodesNext

SpecInodes == InitInodes /\ [][NextInodes]_vars

(***************************************************************************)
(* Inode::size on images whose inode 4 has every combination of file type, *)
(* size_high and the 64-bit file size feature, for the two pointer widths  *)
(* the crate compiles size() for.                                          *)
(***************************************************************************)
SizeInode == 4
SizeImages ==
    { MkVolume(DirImageBlocks(0) * BlockSizeOf(0),
               Override(DirImage(0),
                   Word(SUPERBLOCK_OFFSET + 100, feat)
                   \cup Half(InodeAddr(SizeInode), type + 420)
                   \cup Word(InodeAddr(SizeInode) + 4, low)
                   \cup Word(InodeAddr(SizeInode) + 108, high))) :
        feat \in { 0, 1, RONLY_FILE_SIZE_64, RONLY_FILE_SIZE_64 + 1 },
        type \in { FILE, DIRECTORY, SYMLINK },
        low \in { 0, 5 },
        high \in { 0, 1, 3 } }

InitSize == (\E img \in SizeImages : Mounted(img, SizeInode)) /\ Idle

Size(width) ==
    /\ probe.op = "none"
    /\ probe' = [op |-> "size", width |-> width,
                 out |-> Inode_size_on(width, inode.inner)]
    /\ UNCHANGED <<fs, inode, blocks, rd, dirVars, inodeVars, lowVars>>

NextSize == \E width \in { 32, 64 } : Size(width)

SpecSize == InitSize /\ [][NextSize]_vars

(***************************************************************************)
(* Construction: Superblock::find and Ext2::new on raw volumes.  The       *)
(* volumes are the directory image cut at several lengths, with several    *)
(* values in the magic field and in the four counts of the superblock.     *)
(***************************************************************************)
SUPERBLOCK_END == SUPERBLOCK_OFFSET + SUPERBLOCK_SIZE
MAGIC_ADDR == SUPERBLOCK_OFFSET + 56
MountLens ==
    { 0, SUPERBLOCK_OFFSET, MAGIC_ADDR + 2, SUPERBLOCK_END - 1, SUPERBLOCK_END,
      SUPERBLOCK_END + DESCRIPTOR_SIZE, SUPERBLOCK_END + 2 * DESCRIPTOR_SIZE,
      DirImageBlocks(1) * BlockSizeOf(1) }
Magics == { EXT2_MAGIC, 0, EXT2_MAGIC - 1, (EXT2_MAGIC % 256) * 256 + EXT2_MAGIC \div 256 }
\* <<count, per group>> of inodes and of blocks
InodeCounts == { <<6, 3>>, <<4, 3>>, <<3, 3>>, <<7, 3>>, <<6, 0>> }
BlockCounts ==
    { <<DirImageBlocks(1), (DirImageBlocks(1) + 1) \div 2>>,
      <<DirImageBlocks(1), DirImageBlocks(1)>>,
      <<DirImageBlocks(1) + 1, (DirImageBlocks(1) + 1) \div 2>>,
      <<DirImageBlocks(1), 0>> }
MountVolumes ==
    { MkVolume(len,
               Override(DirImage(1),
                        Half(MAGIC_ADDR, magic)
                        \cup Word(SUPERBLOCK_OFFSET, ic[1])
                        \cup Word(SUPERBLOCK_OFFSET + 40, ic[2])
                        \cup Word(SUPERBLOCK_OFFSET + 4, bc[1])
                        \cup Word(SUPERBLOCK_OFFSET + 32, bc[2]))) :
        len \in MountLens, magic \in Magics, ic \in InodeCounts, bc \in BlockCounts }

Unmounted == fs = [tag |-> "none"] /\ inode = [tag |-> "none"]

InitMount ==
    /\ Unmounted /\ IdleFs /\ IdleAddr /\ IdleVol /\ IdleSync
    /\ \E v \in MountVolumes : mnt = [op |-> "none", volume |-> v]

SuperblockFind ==
    /\ mnt.op = "none"
    /\ mnt' = [op |-> "find", volume |-> mnt.volume,
               out |-> Superblock_find(S, mnt.volume)]
    /\ UNCHANGED <<fs, inode, blockVars, dirVars, inodeVars, adr, vsl, syncVars>>

New ==
    /\ mnt.op = "none"
    /\ mnt' = [op |-> "new", volume |-> mnt.volume,
               out |-> Ext2_new(S, mnt.volume)]
    /\ UNCHANGED <<fs, inode, blockVars, dirVars, inodeVars, adr, vsl, syncVars>>

NextMount == SuperblockFind \/ New

SpecMount == InitMount /\ [][NextMount]_vars

(***************************************************************************)
(* Slices: a slice is taken from an in-memory volume or from a file, its   *)
(* bytes are accessed mutably or not, and it is committed.                 *)
(***************************************************************************)
SliceSectors == 3
VolumeLens ==
    { 0, 1, Pow2(LogSectorSize) + 1, 2 * Pow2(LogSectorSize),
      SliceSectors * Pow2(LogSectorSize) - 1 }
\* byte k of a test volume holds k + 1
TestVolume(len) == [len |-> len, data |-> [k \in 0..(len - 1) |-> k + 1]]
SliceAddresses ==
    { [sector |-> sec, offset |-> off] :
        sec \in 0..SliceSectors, off \in 0..(Pow2(LogSectorSize) - 1) }
WRITTEN == 255

InitVol == Unmounted /\ IdleFs /\ IdleMount /\ IdleAddr /\ IdleVol /\ IdleSync

volFrame == <<fs, inode, blockVars, dirVars, inodeVars, mnt, adr, syncVars>>

\* Volume::slice of Vec<u8>
SliceMemory ==
    \E len \in VolumeLens, start \in SliceAddresses, end \in SliceAddresses :
        /\ vsl.op = "none"
        /\ Address_ge(end, start)
        /\ vsl' = [op |-> "slice", adapter |-> "memory",
                   volume |-> TestVolume(len), size |-> Volume_size(S, TestVolume(len)),
                   start |-> start, end |-> end,
                   out |-> Volume_slice(S, TestVolume(len), start, end),
                   touched |-> 0, before |-> TestVolume(len)]
        /\ UNCHANGED volFrame

\* Volume::slice of RefCell<File>
SliceFile ==
    \E len \in VolumeLens, meta \in BOOLEAN :
        \E start \in SliceAddresses, end \in SliceAddresses :
            LET f == [len |-> len, data |-> TestVolume(len).data, meta |-> meta]
            IN  /\ vsl.op = "none"
                /\ Address_ge(end, start)
                /\ vsl' = [op |-> "slice", adapter |-> "file",
                           volume |-> f, size |-> File_size(S, f),
                           start |-> start, end |-> end,
                           out |-> File_slice(S, f, start, end),
                           touched |-> 0, before |-> f]
                /\ UNCHANGED volFrame

\* as_ref / deref: a shared view of the bytes
SliceAsRef ==
    /\ vsl.op = "slice"
    /\ IsOk(vsl.out)
    /\ vsl' = [vsl EXCEPT !.op = "as_ref"]
    /\ UNCHANGED volFrame

\* as_mut / deref_mut, and what the caller writes through it: nothing, or
\* the first or the last byte
SliceAsMut ==
    /\ vsl.op \in { "slice", "as_ref", "as_mut" }
    /\ IsOk(vsl.out)
    /\ vsl.touched < MaxWrites
    /\ \E k \in { 0, 1, Len(vsl.out.val.inner) } :
           LET stored == VolumeSlice_store(vsl.volume, vsl.out.val, k, WRITTEN)
           IN  vsl' = [vsl EXCEPT !.op = "as_mut", !.out = Ok(stored.slice),
                                  !.volume = stored.volume, !.touched = @ + 1]
    /\ UNCHANGED volFrame

\* VolumeSlice::commit(self)
SliceCommit ==
    /\ vsl.op \in { "slice", "as_ref", "as_mut" }
    /\ IsOk(vsl.out)
    /\ vsl' = [op |-> "commit", adapter |-> vsl.adapter, slice |-> vsl.out.val,
               touched |-> vsl.touched,
               out |-> VolumeSlice_commit(vsl.out.val),
               volume |-> vsl.volume, before |-> vsl.before,
               start |-> vsl.start, end |-> vsl.end]
    /\ UNCHANGED volFrame

\* the slice goes out of scope without a commit
SliceDrop ==
    /\ vsl.op \in { "slice", "as_ref", "as_mut" }
    /\ IsOk(vsl.out)
    /\ vsl' = [op |-> "dropped", adapter |-> vsl.adapter, touched |-> vsl.touched,
               volume |-> vsl.volume, before |-> vsl.before]
    /\ UNCHANGED volFrame

\* Volume::commit of Vec<u8> with what VolumeSlice::commit gave
CommitMemory ==
    /\ vsl.op = "commit"
    /\ vsl.adapter = "memory"
    /\ vsl' = [op |-> "written", adapter |-> vsl.adapter, touched |-> vsl.touched,
               commit |-> vsl.out, before |-> vsl.before,
               start |-> vsl.start, end |-> vsl.end,
               out |-> Volume_commit(S, vsl.volume, vsl.out)]
    /\ UNCHANGED volFrame

NextVol ==
    \/ SliceMemory
    \/ SliceFile
    \/ SliceAsRef
    \/ SliceAsMut
    \/ SliceCommit
    \/ SliceDrop
    \/ CommitMemory

SpecVol == InitVol /\ [][NextVol]_vars

(***************************************************************************)
(* Addresses: one call of a constructor or an operator of Address<S>, for  *)
(* the four sector sizes.  A subtraction of u32 sectors that goes below 0  *)
(* panics in a build with overflow checks and wraps in one without.        *)
(***************************************************************************)
LogSizes == { 9, 10, 11, 12 }
Sectors == { 0, 1, 2, 3, 1000 }
\* byte offsets around the sector and block boundaries
Bytes(n) == { 0, 1, 100, Pow2(n) - 1, Pow2(n), Pow2(n) + 1, 3 * Pow2(n) + 7 }
Signed(B) == B \cup { 0 - b : b \in B }
Addresses(n) ==
    { [sector |-> sec, offset |-> off] :
        sec \in { 0, 1, 3 }, off \in { 0, 1, 100, Pow2(n) - 1 } }

InitAddr == Unmounted /\ IdleFs /\ IdleMount /\ IdleAddr /\ IdleVol /\ IdleSync

\* the variables an Address operation leaves alone
addrFrame == <<fs, inode, blockVars, dirVars, inodeVars, mnt, vsl, syncVars>>

AddrNew ==
    \E n \in LogSizes, b \in Sectors : \E o \in Signed(Bytes(n)) :
        /\ adr.op = "none"
        /\ b * Pow2(n) + o >= 0
        /\ adr' = [op |-> "new", S |-> n, sector |-> b, offset |-> o,
                   out |-> Address_new(n, b, o)]
        /\ UNCHANGED addrFrame

AddrWithBlockSize ==
    \E n \in LogSizes, d \in 0..MaxLogDiff, b \in Sectors :
        \E o \in Signed(Bytes(n + d)) :
            /\ adr.op = "none"
            /\ b * Pow2(n + d) + o >= 0
            /\ adr' = [op |-> "with_block_size", S |-> n, block |-> b,
                       offset |-> o, log_block_size |-> n + d,
                       out |-> Address_with_block_size(n, b, o, n + d)]
            /\ UNCHANGED addrFrame

AddrFrom ==
    \E n \in LogSizes, b \in Sectors : \E o \in Bytes(n) :
        /\ adr.op = "none"
        /\ adr' = [op |-> "from", S |-> n, idx |-> b * Pow2(n) + o,
                   out |-> Address_from(n, b * Pow2(n) + o)]
        /\ UNCHANGED addrFrame

AddrAdd ==
    \E n \in LogSizes : \E a \in Addresses(n), b \in Addresses(n) :
        /\ adr.op = "none"
        /\ adr' = [op |-> "add", S |-> n, a |-> a, b |-> b,
                   out |-> Address_add(n, a, b)]
        /\ UNCHANGED addrFrame

\* self.sector - rhs.sector on u32
AddrSub ==
    \E n \in LogSizes : \E a \in Addresses(n), b \in Addresses(n) :
        \E out \in (IF a.sector < b.sector THEN { [tag |-> "Panic"] } ELSE {})
                       \cup { Address_sub(n, a, b) } :
            /\ adr.op = "none"
            /\ adr' = [op |-> "sub", S |-> n, a |-> a, b |-> b, out |-> out]
            /\ UNCHANGED addrFrame

AddrAddOne ==
    \E n \in LogSizes : \E a \in Addresses(n) :
        /\ adr.op = "none"
        /\ adr' = [op |-> "add_one", S |-> n, a |-> a,
                   out |-> Address_add_one(n, a)]
        /\ UNCHANGED addrFrame

\* self.sector - 1 on u32
AddrSubOne ==
    \E n \in LogSizes : \E a \in Addresses(n) :
        \E out \in (IF a.sector = 0 THEN { [tag |-> "Panic"] } ELSE {})
                       \cup { Address_sub_one(n, a) } :
            /\ adr.op = "none"
            /\ adr' = [op |-> "sub_one", S |-> n, a |-> a, out |-> out]
            /\ UNCHANGED addrFrame

\* checked_add yields None only past 2^32 - 1, beyond the sectors used here
AddrAddUsize ==
    \E n \in LogSizes, k \in Sectors : \E a \in Addresses(n) :
        /\ adr.op = "none"
        /\ adr' = [op |-> "add_usize", S |-> n, a |-> a, n |-> k,
                   out |-> Address_add_usize(n, a, k)]
        /\ UNCHANGED addrFrame

NextAddr ==
    \/ AddrNew
    \/ AddrWithBlockSize
    \/ AddrFrom
    \/ AddrAdd
    \/ AddrSub
    \/ AddrAddOne
    \/ AddrSubOne
    \/ AddrAddUsize

SpecAddr == InitAddr /\ [][NextAddr]_vars

(***************************************************************************)
(* src/fs/sync.rs under threads.  Every thread owns a clone of one         *)
(* Synced<Ext2<S, RefCell<File>>> and makes a series of calls.  A call is  *)
(* the sequence of its steps that touch shared state: "lock" is            *)
(* Synced::inner() (spin::Mutex::lock, which spins while the mutex is      *)
(* held), "unlock" the drop of the guard, "slice" a Volume::slice of the   *)
(* file (a seek, then a read_exact, on the one shared cursor), "panic" an  *)
(* unwinding panic, "ret" the return to the caller.                        *)
(***************************************************************************)
Threads == 1..NThreads
LOCK == [i |-> "lock"]
UNLOCK == [i |-> "unlock"]
RET == [i |-> "ret"]
PANIC == [i |-> "panic"]
SLICE(at) == [i |-> "slice", at |-> at]

\* a variant of the mutex that never makes a thread wait
Synced_inner_ready_always(holder) == TRUE

\* Synced::inner: self.inner.lock() goes on when the mutex is free
Synced_inner_ready(holder) == holder = 0

\* Synced::inodes_nth: the guard is held while the iterator is built
Synced_inodes_nth_steps == <<LOCK, UNLOCK>>

\* Inodes::next: past the last index nothing is locked; otherwise the guard
\* is held over find_inode, or over the panic of block_groups.inner[..]
Inodes_next_steps(kind, at) ==
    CASE kind = "end" -> <<>>
      [] kind = "found" -> <<LOCK, SLICE(at), UNLOCK>>
      [] kind = "panic" -> <<LOCK, PANIC>>

Synced_inode_nth_steps(kind, at) ==
    Synced_inodes_nth_steps \o Inodes_next_steps(kind, at)

\* Inode::try_block: the guard is taken first and held over the reads of the
\* 0, 1, 2 or 3 tables on the way
Inode_try_block_steps(levels, at) ==
    <<LOCK>> \o [k \in 1..levels |-> SLICE(at)] \o <<UNLOCK>>

\* a variant that takes the guard before it calls try_block
InodeBlocks_next_steps_guard_first(levels, found, at) ==
    <<LOCK>> \o Inode_try_block_steps(levels, at)
        \o (IF found THEN <<SLICE(at), UNLOCK>> ELSE <<UNLOCK>>)

\* InodeBlocks::next: try_block, then, for a block, the guard again over the
\* read of the block
InodeBlocks_next_steps(levels, found, at) ==
    Inode_try_block_steps(levels, at)
        \o (IF found THEN <<LOCK, SLICE(at), UNLOCK>> ELSE <<>>)

\* Inode::directory: the guard is held in a block of its own for block_size
Inode_directory_steps(is_dir) == IF is_dir THEN <<LOCK, UNLOCK>> ELSE <<>>

\* Directory::next: a new block is fetched when the buffer is used up
Directory_next_steps(refill, levels, found, at) ==
    IF refill THEN InodeBlocks_next_steps(levels, found, at) ELSE <<>>

\* Inode::read: block_size under a guard of its own, then the block stream
Inode_read_steps(nblocks, at) ==
    <<LOCK, UNLOCK>>
        \o (IF nblocks > 0 THEN InodeBlocks_next_steps(0, TRUE, at) ELSE <<>>)
        \o InodeBlocks_next_steps(0, FALSE, at)

\* Synced::open of "/x": the root, its directory, one entry, the entry's inode
Synced_open_steps(at) ==
    Synced_inode_nth_steps("found", at)
        \o Inode_directory_steps(TRUE)
        \o Directory_next_steps(TRUE, 0, TRUE, at)
        \o Synced_inode_nth_steps("found", at)

\* what a thread does: calls, each followed by its return
Programs(at) ==
    { Synced_inode_nth_steps("found", at) \o <<RET>>,
      Synced_inode_nth_steps("panic", at),
      Synced_inodes_nth_steps \o <<RET>> \o Inodes_next_steps("found", at) \o <<RET>>
          \o Inodes_next_steps("end", at) \o <<RET>>,
      Inode_try_block_steps(0, at) \o <<RET>> \o Inode_try_block_steps(3, at) \o <<RET>>,
      InodeBlocks_next_steps(1, TRUE, at) \o <<RET>>
          \o InodeBlocks_next_steps(0, FALSE, at) \o <<RET>>,
      Inode_directory_steps(TRUE) \o <<RET>>
          \o Directory_next_steps(TRUE, 0, TRUE, at) \o <<RET>>
          \o Directory_next_steps(FALSE, 0, TRUE, at) \o <<RET>>,
      Inode_read_steps(1, at) \o <<RET>>,
      Synced_open_steps(at) \o <<RET>> }

\* the file: one sector per thread and one more; byte k holds k + 1
SyncFile ==
    [len |-> (NThreads + 1) * Pow2(S),
     data |-> [k \in 0..((NThreads + 1) * Pow2(S) - 1) |-> k + 1],
     meta |-> TRUE]
\* thread t reads the sector t - 1
SyncAddress(t) == (t - 1) * Pow2(S)

InitSync ==
    /\ Unmounted /\ IdleFs /\ IdleMount /\ IdleAddr /\ IdleVol
    /\ lock = 0
    /\ cursor = 0
    /\ thr \in [Threads -> { [code |-> <<>>, pc |-> 1, mid |-> FALSE, got |-> <<>>] }]

syncFrame == <<fs, inode, blockVars, dirVars, inodeVars, mnt, adr, vsl>>

Started(t) == thr[t].code # <<>>
Done(t) == Started(t) /\ thr[t].pc > Len(thr[t].code)
Instr(t) == IF Started(t) /\ ~Done(t) THEN thr[t].code[thr[t].pc] ELSE [i |-> "none"]
Advance(t) == [thr EXCEPT ![t].pc = @ + 1]

\* the thread is handed its calls
ThreadSpawn(t) ==
    /\ ~Started(t)
    /\ \E code \in Programs(SyncAddress(t)) :
           thr' = [thr EXCEPT ![t].code = code]
    /\ UNCHANGED <<lock, cursor, syncFrame>>

ThreadLock(t) ==
    /\ Instr(t).i = "lock"
    /\ Synced_inner_ready(lock)
    /\ lock' = t
    /\ thr' = Advance(t)
    /\ UNCHANGED <<cursor, syncFrame>>

\* drop of the MutexGuard
ThreadUnlock(t) ==
    /\ Instr(t).i = "unlock"
    /\ lock' = 0
    /\ thr' = Advance(t)
    /\ UNCHANGED <<cursor, syncFrame>>

\* Volume::slice of the file, first half: seek(SeekFrom::Start(index))
ThreadSeek(t) ==
    /\ Instr(t).i = "slice"
    /\ ~thr[t].mid
    /\ cursor' = Instr(t).at
    /\ thr' = [thr EXCEPT ![t].mid = TRUE]
    /\ UNCHANGED <<lock, syncFrame>>

\* Volume::slice of the file, second half: read_exact at the cursor
ThreadRead(t) ==
    /\ Instr(t).i = "slice"
    /\ thr[t].mid
    /\ LET read == File_read_exact(SyncFile, cursor, Pow2(S))
       IN  /\ cursor' = IF IsOk(read) THEN cursor + Pow2(S) ELSE cursor
           /\ thr' = [thr EXCEPT ![t].mid = FALSE, ![t].pc = @ + 1,
                                 ![t].got = Append(@, [at |-> Instr(t).at,
                                                       out |-> read])]
    /\ UNCHANGED <<lock, syncFrame>>

\* an unwinding panic drops the guard and ends the thread
ThreadUnwind(t) ==
    /\ Instr(t).i = "panic"
    /\ lock' = IF lock = t THEN 0 ELSE lock
    /\ thr' = [thr EXCEPT ![t].pc = Len(thr[t].code) + 1]
    /\ UNCHANGED <<cursor, syncFrame>>

\* the call returns and the caller's own code runs
ThreadReturn(t) ==
    /\ Instr(t).i = "ret"
    /\ thr' = Advance(t)
    /\ UNCHANGED <<lock, cursor, syncFrame>>

Step(t) ==
    \/ ThreadSpawn(t)
    \/ ThreadLock(t)
    \/ ThreadUnlock(t)
    \/ ThreadSeek(t)
    \/ ThreadRead(t)
    \/ ThreadUnwind(t)
    \/ ThreadReturn(t)

NextSync == \E t \in Threads : Step(t)

SpecSync == InitSync /\ [][NextSync]_vars

\* every thread that can take a step is scheduled in the end
SpecSyncFair == SpecSync /\ \A t \in Threads : WF_vars(Step(t))

(***************************************************************************)
(* Properties of the block resolver, the block iterator and read.          *)
(***************************************************************************)
\* the geometry of the filesystem, from the superblock's log_block_size
BlockSize == Pow2(LogBlockBase + fs.superblock.inner.log_block_size)
N4 == BlockSize \div 4
Tried == probe.op = "try_block"
Absent(res) == res = [tag |-> "Ok", val |-> [some |-> FALSE, v |-> 0]]

\* C1: try_block(i) resolves i through exactly one region: the direct table
\* for 0 <= i < 12 (returning direct_pointer[i]), the singly-indirect block
\* for 12 <= i < 12+n4, the doubly-indirect tree for the next n4^2 indices,
\* the triply-indirect tree for the next n4^3, and it returns absent past
\* that; the first index of each region reads entry 0 of every table on
\* its walk.
C1_Regions ==
    Tried =>
        LET i == probe.index
            reads == probe.out.reads
            res == probe.out.res
        IN  /\ i < 12 =>
                /\ reads = <<>>
                /\ res = Ok(NonZero_new(inode.inner.direct_pointer[i]))
            /\ 12 <= i /\ i < 12 + N4 =>
                reads = << <<inode.inner.indirect_pointer, i - 12>> >>
            /\ 12 + N4 <= i /\ i < 12 + N4 + N4 * N4 =>
                /\ Len(reads) \in {1, 2}
                /\ reads[1][1] = inode.inner.doubly_indirect
            /\ 12 + N4 + N4 * N4 <= i /\ i < 12 + N4 + N4 * N4 + N4 * N4 * N4 =>
                /\ Len(reads) \in {1, 2, 3}
                /\ reads[1][1] = inode.inner.triply_indirect
            /\ i >= 12 + N4 + N4 * N4 + N4 * N4 * N4 =>
                reads = <<>> /\ Absent(res)
            /\ i \in {12, 12 + N4, 12 + N4 + N4 * N4} =>
                \A k \in 1..Len(reads) : reads[k][2] = 0

\* the first triply-indirect index resolved to a block through three tables
C1_Witness ==
    /\ Tried
    /\ probe.index = 12 + N4 + N4 * N4
    /\ Len(probe.out.reads) = 3
    /\ IsOk(probe.out.res) /\ probe.out.res.val.some

\* C2: a zero pointer on the walk of index i - the direct pointer, one of
\* the inode's three indirect pointers, or an entry of a pointer block -
\* makes try_block(i) return Ok(None), whatever the volume holds.
C2_ZeroPointerAbsent ==
    Tried =>
        LET i == probe.index
            reads == probe.out.reads
        IN  (\/ i < 12 /\ inode.inner.direct_pointer[i] = 0
             \/ \E k \in 1..Len(reads) : reads[k][1] = 0)
            => Absent(probe.out.res)

\* C23: in the doubly-indirect region the residual index r is looked up at
\* entry r div n4 of the doubly-indirect block and then at entry r mod n4;
\* in the triply-indirect region at entry r div n4^2 of the triply-indirect
\* block, then at entry (r div n4) mod n4, then at entry r mod n4; every
\* table index used is below n4.
C23_BaseN4 ==
    Tried =>
        LET i == probe.index
            reads == probe.out.reads
            d == i - 12 - N4
            t == i - 12 - N4 - N4 * N4
        IN  /\ \A k \in 1..Len(reads) : reads[k][2] < N4
            /\ (0 <= d /\ d < N4 * N4) =>
                  /\ reads[1] = <<inode.inner.doubly_indirect, d \div N4>>
                  /\ Len(reads) > 1 => reads[2][2] = d % N4
            /\ (0 <= t /\ t < N4 * N4 * N4) =>
                  /\ reads[1] = <<inode.inner.triply_indirect, t \div (N4 * N4)>>
                  /\ Len(reads) > 1 => reads[2][2] = (t \div N4) % N4
                  /\ Len(reads) > 2 => reads[3][2] = t % N4

StreamItem(j) == InodeBlocks_next(S, fs, inode.inner, j).item
MaxStream == 12 + N4 + N4 * N4 + N4 * N4 * N4
StreamStop ==
    CHOOSE k \in 0..MaxStream :
        /\ StreamItem(k).tag # "Ok"
        /\ \A j \in 0..(k - 1) : StreamItem(j).tag = "Ok"
\* the stream yields exactly k blocks and no error
StreamEnds(k) == k = StreamStop /\ StreamItem(k).tag = "None"
Min3(a, b, c) == Min(a, Min(b, c))

\* C5: when the block stream yields k blocks and no error, read(buf) on an
\* inode of size s returns n = min(s, buf.len(), k * block_size), buf[0..n]
\* holds the first n bytes of the concatenated blocks and buf[n..] is as it
\* was; so when the blocks cover the file and s <= buf.len(), it returns s.
C5_ReadLength ==
    (rd.op = "read" /\ StreamEnds(StreamStop)) =>
        LET k == StreamStop
            s == inode.inner.size_low
            n == Min3(s, rd.len, k * BlockSize)
        IN  /\ rd.out.res = Ok(n)
            /\ Len(rd.out.buf) = rd.len
            /\ \A j \in 0..(k - 1) :
                   \A b \in (j * BlockSize + 1)..Min(n, (j + 1) * BlockSize) :
                       rd.out.buf[b] = StreamItem(j).data[b - j * BlockSize]
            /\ \A b \in (n + 1)..rd.len : rd.out.buf[b] = UNTOUCHED
            /\ (s <= rd.len /\ s <= k * BlockSize) => rd.out.res = Ok(s)

\* a read of a whole file that reaches into the doubly-indirect tree, into
\* a longer buffer
C5_Witness ==
    /\ rd.op = "read"
    /\ StreamEnds(StreamStop) /\ StreamStop > 12 + N4
    /\ rd.out.res = Ok(inode.inner.size_low)
    /\ inode.inner.size_low > (12 + N4) * BlockSize
    /\ rd.len > inode.inner.size_low

\* C6: on a file larger than 12 blocks whose singly-indirect pointer is
\* zero, read into a buffer that holds the file returns Ok(12 * block_size),
\* whatever the rest of the volume holds.
C6_SparseRead ==
    (/\ rd.op = "read"
     /\ inode.inner.indirect_pointer = 0
     /\ \A j \in 0..11 : StreamItem(j).tag = "Ok"
     /\ inode.inner.size_low > 12 * BlockSize
     /\ rd.len >= inode.inner.size_low)
    => rd.out.res = Ok(12 * BlockSize)


\* C28: every call of InodeBlocks::next that yields an item, a block or an
\* error, leaves the iterator's index one past the index it started from:
\* an error is reported once and the following call goes on with the next
\* logical block.
C28_ItemAdvances ==
    blocks.item.tag \in {"Ok", "Err"} => blocks.index = blocks.at + 1

\* C3: a failed volume read is reported to the caller as an error and is
\* never turned into an absent result: when resolving logical block i fails,
\* block(i) does not answer None.
C3_ErrorsSurfaced ==
    (probe.op = "block"
        /\ IsErr(Inode_try_block(S, fs, inode.inner, probe.index).res))
    => probe.out # None

(***************************************************************************)
(* Properties of the directory walker and of open, over SpecDir.           *)
(***************************************************************************)
\* C7: a walker that has stopped stays stopped, and every entry it yields
\* has name_len <= rec_len - 8 and carries name_len name bytes.
C7_DirectoryEntries ==
    (dir.op = "directory" /\ dir.calls > 0) =>
        /\ (dir.before = "None" => dir.item.tag = "None")
        /\ dir.item.tag = "Ok" =>
              /\ dir.item.name_len <= dir.item.rec_len - DIRENT_HEADER
              /\ Len(dir.item.entry.name) = dir.item.name_len

\* C27: walking a directory stays in bounds and makes progress: no call
\* of next() panics on a header or a name that reaches past the buffered
\* block, and every entry yielded has rec_len > 0 and leaves the cursor
\* rec_len bytes further, inside the block or at its end, so that the walk
\* comes to its end after finitely many calls.
C27_WalkInBounds ==
    (dir.op = "directory" /\ dir.calls > 0) =>
        /\ dir.item.tag # "Panic"
        /\ dir.item.tag = "Ok" =>
              LET start == IF dir.state.v.blocks = dir.from.blocks
                           THEN dir.from.offset ELSE 0
              IN  /\ dir.item.rec_len > 0
                  /\ dir.state.v.offset = start + dir.item.rec_len
                  /\ start + DIRENT_HEADER + dir.item.name_len
                         <= dir.state.v.block_size
                  /\ dir.state.v.offset <= dir.state.v.block_size

\* The walk the path resolver is specified to make, told from the inode
\* table and the directory listings: the file type of an inode is the top
\* four bits of type_perm, and the listing of a directory is what its walker
\* yields, call after call, until a call yields no entry.
FileType(inner) == (inner.type_perm \div 4096) % 16
IsDirectoryType(inner) == FileType(inner) * 4096 = DIRECTORY

RECURSIVE Listing(_, _, _, _)
ListingStep(f, inner, step, n) ==
    IF step.item.tag = "Ok"
    THEN [entries |-> <<step.item.entry>> \o Listing(f, inner, step.dir, n - 1).entries,
          end |-> Listing(f, inner, step.dir, n - 1).end]
    ELSE [entries |-> <<>>, end |-> step.item.tag]
Listing(f, inner, d, n) ==
    IF n = 0 THEN [entries |-> <<>>, end |-> "More"]
    ELSE ListingStep(f, inner, Directory_next(S, f, inner, d), n)

\* the components of a path: the byte strings between its slashes
RECURSIVE Pieces(_)
Pieces(p) ==
    IF \A k \in 1..Len(p) : p[k] # SLASH THEN <<p>>
    ELSE LET k == CHOOSE i \in 1..Len(p) :
                      p[i] = SLASH /\ \A j \in 1..(i - 1) : p[j] # SLASH
         IN  <<SubSeq(p, 1, k - 1)>> \o Pieces(SubSeq(p, k + 1, Len(p)))

RECURSIVE Walked(_, _, _)
WalkedChild(f, comps, child) ==
    IF child.tag = "Some" THEN Walked(f, child.inode, Tail(comps))
    ELSE [tag |-> "InodeNotFound"]
WalkedLookup(f, comps, listing) ==
    LET hits == { k \in 1..Len(listing.entries) :
                    listing.entries[k].name = Head(comps) }
        first == CHOOSE k \in hits : \A j \in hits : k <= j
    IN  IF hits # {}
        THEN WalkedChild(f, comps, Synced_inode_nth(S, f, listing.entries[first].inode))
        ELSE IF listing.end = "None" THEN [tag |-> "NotFound"]
        ELSE [tag |-> "Other"]
Walked(f, cur, comps) ==
    IF comps = <<>> THEN [tag |-> "Ok", inode |-> cur]
    ELSE IF ~IsDirectoryType(cur.inner) THEN [tag |-> "NotADirectory"]
    ELSE WalkedLookup(f, comps,
             Listing(f, cur.inner, Inode_directory(f, cur.inner).v, MaxCalls))

\* what open(path) is specified to answer: Ok with an inode, one of the four
\* error variants, or Other where the claims say nothing (the listing itself
\* fails before a match)
Expected(path) ==
    IF path = <<>> \/ path[1] # SLASH THEN [tag |-> "NotAbsolute"]
    ELSE IF Synced_inode_nth(S, fs, ROOT_INODE).tag # "Some" THEN [tag |-> "Other"]
    ELSE IF path = <<SLASH>>
    THEN [tag |-> "Ok", inode |-> Synced_inode_nth(S, fs, ROOT_INODE).inode]
    ELSE Walked(fs, Synced_inode_nth(S, fs, ROOT_INODE).inode, Pieces(Tail(path)))

Opened == walk.op = "open"

\* C8: for a path /c1/../ck whose every component names an entry of the
\* directory reached so far, each such first entry's inode being loadable,
\* open returns the inode of the first entry named ck in the last directory;
\* for "/" it returns inode 2.
C8_OpenWalksFromRoot ==
    (Opened /\ Expected(walk.path).tag = "Ok") =>
        /\ walk.out = Ok(Expected(walk.path).inode)
        /\ walk.path = <<SLASH>> => walk.out.val.num = ROOT_INODE

\* open("/a/b") went through the directory /a, whose name is also that of a
\* later entry of the root, and returned the regular file
C8_Witness ==
    /\ Opened
    /\ walk.path = <<SLASH>> \o NameA \o <<SLASH>> \o NameB
    /\ Expected(walk.path).tag = "Ok"
    /\ walk.out.tag = "Ok"
    /\ walk.out.val.num = 4
    /\ ~IsDirectoryType(walk.out.val.inner)

\* C9: open fails with NotAbsolute (carrying the path) on a path that is
\* empty or does not start with '/', with NotADirectory when a component
\* remains and the current inode is not a directory, with NotFound (carrying
\* the path) when the current directory has no entry of that name, and with
\* InodeNotFound when the entry's inode cannot be loaded.
C9_OpenErrors ==
    (Opened /\ Expected(walk.path).tag
                 \in {"NotAbsolute", "NotADirectory", "NotFound", "InodeNotFound"}) =>
        /\ walk.out.tag = "Err"
        /\ walk.out.err.kind = Expected(walk.path).tag
        /\ Expected(walk.path).tag \in {"NotAbsolute", "NotFound"} =>
               walk.out.err.name = walk.path

\* the inode number stored in the entry whose inode the walk along comps
\* could not load (for a walk that ends in InodeNotFound)
RECURSIVE MissingChild(_, _, _)
MissingChild(f, cur, comps) ==
    LET listing == Listing(f, cur.inner, Inode_directory(f, cur.inner).v, MaxCalls)
        hits == { k \in 1..Len(listing.entries) :
                    listing.entries[k].name = Head(comps) }
        first == CHOOSE k \in hits : \A j \in hits : k <= j
        child == Synced_inode_nth(S, f, listing.entries[first].inode)
    IN  IF child.tag = "Some" THEN MissingChild(f, child.inode, Tail(comps))
        ELSE listing.entries[first].inode

\* C29: when open meets an entry whose inode cannot be loaded, the
\* InodeNotFound error carries the inode number stored in that entry, not
\* the number of the directory that holds the entry.
C29_MissingChildNumber ==
    (Opened /\ Expected(walk.path).tag = "InodeNotFound") =>
        walk.out = Err([kind |-> "InodeNotFound",
                        inode |-> MissingChild(fs,
                                      Synced_inode_nth(S, fs, ROOT_INODE).inode,
                                      Pieces(Tail(walk.path)))])

\* C30: directory() returns a walker exactly for the inodes whose file
\* type (type_perm & 0xF000) is 0x4000 and None for every other type, and
\* open answers NotADirectory when it meets an inode of another type with
\* components of the path still to resolve.
C30_DirectoryType ==
    /\ dir.op = "directory" => (dir.state.some <=> IsDirectoryType(inode.inner))
    /\ (Opened /\ Expected(walk.path).tag = "NotADirectory") =>
           (walk.out.tag = "Err" /\ walk.out.err.kind = "NotADirectory")

(***************************************************************************)
(* Properties of the inode enumeration, over SpecInodes.                   *)
(***************************************************************************)
InodesCount == fs.superblock.inner.inodes_count
\* the record of every inode of the table lies inside the volume
Readable == InodeAddr(InodesCount) + RAW_INODE_SIZE <= fs.volume.len

\* C10: with inodes_count = N and a readable volume, inode_nth(n) returns the
\* inode numbered n for 1 <= n <= N, None for n > N, and panics for n = 0;
\* inodes() yields the inodes 1, 2, .., N in that order.
C10_InodesOneIndexed ==
    Readable =>
        /\ nth.op = "inode_nth" =>
              /\ (1 <= nth.n /\ nth.n <= InodesCount) =>
                     (nth.out.tag = "Some" /\ nth.out.inode.num = nth.n)
              /\ nth.n > InodesCount => nth.out.tag = "None"
              /\ nth.n = 0 => nth.out.tag = "Panic"
        /\ (inodes.op = "inodes" /\ inodes.start = 1 /\ inodes.item.tag = "None") =>
              inodes.yielded = [k \in 1..InodesCount |-> k]

\* what inode_nth or the last Inodes::next returned
Located(out) ==
    out.tag = "Some" =>
        LET n == out.inode.num
            per == fs.superblock.inner.inodes_per_group
            group == (n - 1) \div per
            at == fs.block_groups.inner[group + 1].inode_table_block * BlockSize
                      + ((n - 1) % per) * Ext2_inode_size(fs)
        IN  /\ group < Len(fs.block_groups.inner)
            /\ Address_into_index(S, out.inode.addr) = at
            /\ out.inode.inner =
                   RawInode_cast([k \in 1..RAW_INODE_SIZE |-> ByteAt(fs.volume, at + k - 1)])

\* C24: the inode returned for n is projected from the bytes at
\* group_descriptor[(n-1) / inodes_per_group].inode_table_block * block_size
\* + ((n-1) % inodes_per_group) * inode_size, and for 1 <= n <= inodes_count
\* the group index is inside the cached descriptor table: the lookup never
\* indexes outside it.
C24_InodeLocation ==
    /\ (InodesCount - 1) \div fs.superblock.inner.inodes_per_group
           < Len(fs.block_groups.inner)
    /\ nth.op = "inode_nth" =>
          /\ Located(nth.out)
          /\ nth.n >= 1 => nth.out.tag # "Panic"
    /\ (inodes.op = "inodes" /\ inodes.calls > 0) =>
          /\ Located(inodes.item)
          /\ inodes.item.tag # "Panic"

\* an inode of the second group, not the first of its table
C24_Witness ==
    /\ nth.op = "inode_nth"
    /\ nth.out.tag = "Some"
    /\ nth.n = fs.superblock.inner.inodes_per_group + 2
    /\ Address_into_index(S, nth.out.inode.addr) = InodeAddr(nth.n)

\* C25: size() is size_low | size_high << 32 when the filesystem has the
\* 64-bit file size feature and the inode is a regular file, and size_low
\* alone otherwise.
C25_SizeHigh ==
    probe.op = "size" =>
        LET has64 == (ByteAt(fs.volume, SUPERBLOCK_OFFSET + 100) \div 2) % 2 = 1
            regular == (inode.inner.type_perm \div 4096) % 16 = 8
        IN  probe.out = [low |-> inode.inner.size_low,
                         high |-> IF has64 /\ regular THEN inode.inner.size_high ELSE 0]

(***************************************************************************)
(* Properties of the construction, over SpecMount.                         *)
(***************************************************************************)
\* the fields as they stand in the volume's bytes
FieldAt(v, a) == ByteAt(v, a) + 256 * ByteAt(v, a + 1)
                    + 65536 * ByteAt(v, a + 2) + 16777216 * ByteAt(v, a + 3)
MagicOf(v) == ByteAt(v, MAGIC_ADDR) + 256 * ByteAt(v, MAGIC_ADDR + 1)
SuperblockOf(v) == Superblock_cast([k \in 1..SUPERBLOCK_SIZE |-> ByteAt(v, SUPERBLOCK_OFFSET + k - 1)])
Constructed == mnt.op \in {"find", "new"}

\* C11: Superblock::find, and with it Ext2::new, fails with
\* AddressOutOfBounds on a volume shorter than 2048 bytes, whatever its
\* magic; otherwise with BadMagic carrying the 16-bit value at bytes
\* [1080, 1082) when that is not 0xEF53; otherwise find returns the record
\* of bytes [1024, 2048) and the address of byte 1024.
C11_SuperblockFind ==
    Constructed =>
        /\ mnt.volume.len < SUPERBLOCK_END =>
              (IsErr(mnt.out) /\ mnt.out.err.kind = "AddressOutOfBounds")
        /\ (mnt.volume.len >= SUPERBLOCK_END /\ MagicOf(mnt.volume) # EXT2_MAGIC) =>
              mnt.out = Err([kind |-> "BadMagic", magic |-> MagicOf(mnt.volume)])
        /\ (mnt.volume.len >= SUPERBLOCK_END /\ MagicOf(mnt.volume) = EXT2_MAGIC
                /\ mnt.op = "find") =>
              /\ IsOk(mnt.out)
              /\ mnt.out.val.inner = SuperblockOf(mnt.volume)
              /\ Address_into_index(S, mnt.out.val.offset) = SUPERBLOCK_OFFSET

\* find on a volume of 2047 bytes whose magic is wrong: the bounds are
\* reported, not the magic
C11_Witness ==
    /\ mnt.op = "find"
    /\ mnt.volume.len = SUPERBLOCK_END - 1
    /\ MagicOf(mnt.volume) = 0
    /\ IsErr(mnt.out) /\ mnt.out.err.kind = "AddressOutOfBounds"

CeilDiv(a, b) == (a + b - 1) \div b
ByBlocks(v) == CeilDiv(FieldAt(v, SUPERBLOCK_OFFSET + 4), FieldAt(v, SUPERBLOCK_OFFSET + 32))
ByInodes(v) == CeilDiv(FieldAt(v, SUPERBLOCK_OFFSET), FieldAt(v, SUPERBLOCK_OFFSET + 40))
ValidSuperblock(v) ==
    /\ v.len >= SUPERBLOCK_END
    /\ MagicOf(v) = EXT2_MAGIC
    /\ FieldAt(v, SUPERBLOCK_OFFSET + 32) > 0
    /\ FieldAt(v, SUPERBLOCK_OFFSET + 40) > 0

\* C12: on a valid superblock Ext2::new fails with BadBlockGroupCount,
\* carrying both counts, exactly when ceil(blocks_count / blocks_per_group)
\* differs from ceil(inodes_count / inodes_per_group); a constructed Ext2 has
\* a descriptor table of that many descriptors.
C12_BlockGroupCount ==
    (mnt.op = "new" /\ ValidSuperblock(mnt.volume)) =>
        /\ ByBlocks(mnt.volume) # ByInodes(mnt.volume) =>
              mnt.out = Err([kind |-> "BadBlockGroupCount",
                             by_blocks |-> ByBlocks(mnt.volume),
                             by_inodes |-> ByInodes(mnt.volume)])
        /\ ByBlocks(mnt.volume) = ByInodes(mnt.volume) =>
              /\ mnt.out.tag \in {"Ok", "Err"}
              /\ IsErr(mnt.out) => mnt.out.err.kind = "AddressOutOfBounds"
              /\ IsOk(mnt.out) =>
                    /\ Len(mnt.out.val.block_groups.inner) = ByBlocks(mnt.volume)
                    /\ \A g \in 1..ByBlocks(mnt.volume) :
                          mnt.out.val.block_groups.inner[g].inode_table_block
                              = FieldAt(mnt.volume,
                                    GDT_ADDR + (g - 1) * DESCRIPTOR_SIZE + 8)

\* 7 inodes in groups of 3 make 3 groups, the blocks make 2: the counts
\* differ only by the rounding up
C12_Witness ==
    /\ mnt.op = "new" /\ ValidSuperblock(mnt.volume)
    /\ FieldAt(mnt.volume, SUPERBLOCK_OFFSET) = 7
    /\ ByInodes(mnt.volume) = 3 /\ ByBlocks(mnt.volume) = 2
    /\ IsErr(mnt.out) /\ mnt.out.err.kind = "BadBlockGroupCount"

\* the descriptor table of n groups ends past the volume
TableTooLong(v, n) == v.len < GDT_ADDR + n * DESCRIPTOR_SIZE

\* C26: Ext2::new is total: on every volume it returns Ok or Err and never
\* panics, a per-group count of zero included; with a correct magic and
\* agreeing group counts, a volume too short for the descriptor table is
\* refused with AddressOutOfBounds.
C26_NewIsTotal ==
    mnt.op = "new" =>
        /\ mnt.out.tag \in {"Ok", "Err"}
        /\ ( /\ ValidSuperblock(mnt.volume)
             /\ ByBlocks(mnt.volume) = ByInodes(mnt.volume)
             /\ TableTooLong(mnt.volume, ByBlocks(mnt.volume)) )
           => (IsErr(mnt.out) /\ mnt.out.err.kind = "AddressOutOfBounds")

(***************************************************************************)
(* Properties of Address, over SpecAddr.                                   *)
(***************************************************************************)
IsAddress(a) == DOMAIN a = {"sector", "offset"}
Linear(n, a) == a.sector * Pow2(n) + a.offset

\* C15: for a byte offset >= 0, inside the block or past it,
\* with_block_size(block, offset, log_block_size).into_index() is
\* block * 2^log_block_size + offset, for every sector size and every
\* log_block_size >= LOG_SIZE.
C15_WithBlockSize ==
    (adr.op = "with_block_size" /\ adr.offset >= 0) =>
        Address_into_index(adr.S, adr.out)
            = adr.block * Pow2(adr.log_block_size) + adr.offset

\* an offset past the end of a block of several sectors, folded into the block
C15_Witness ==
    /\ adr.op = "with_block_size"
    /\ adr.log_block_size > adr.S
    /\ adr.block > 0
    /\ adr.offset > Pow2(adr.log_block_size)
    /\ adr.out.sector > adr.block * Pow2(adr.log_block_size - adr.S)
    /\ adr.out.offset > 0

\* C16: Address::new(b, o) denotes the byte b * SIZE + o whenever that is
\* not negative, for negative o too.
C16_NewNormalises ==
    adr.op = "new" =>
        Linear(adr.S, adr.out) = adr.sector * Pow2(adr.S) + adr.offset

\* C17: (a + b).into_index() = a.into_index() + b.into_index(), and for
\* a >= b, (a - b).into_index() = a.into_index() - b.into_index().
C17_Arithmetic ==
    /\ adr.op = "add" =>
          Address_into_index(adr.S, adr.out)
              = Address_into_index(adr.S, adr.a) + Address_into_index(adr.S, adr.b)
    /\ (adr.op = "sub" /\ Address_ge(adr.a, adr.b)) =>
          Address_into_index(adr.S, adr.out)
              = Address_into_index(adr.S, adr.a) - Address_into_index(adr.S, adr.b)

\* C18: every address a constructor or an operator produces has
\* offset < SIZE, and Address::from(idx).into_index() = idx.
C18_AddressInvariant ==
    /\ (adr.op # "none" /\ IsAddress(adr.out)) =>
          (0 <= adr.out.offset /\ adr.out.offset < Pow2(adr.S))
    /\ adr.op = "from" =>
          (IsAddress(adr.out) /\ Address_into_index(adr.S, adr.out) = adr.idx)

\* from() of an index inside a sector that is not the first
C18_Witness ==
    /\ adr.op = "from"
    /\ adr.idx = 3 * Pow2(adr.S) + 100
    /\ adr.out = [sector |-> 3, offset |-> 100]

(***************************************************************************)
(* Properties of Volume::slice and VolumeSlice, over SpecVol.              *)
(***************************************************************************)
Sliced == vsl.op = "slice"
Index(a) == a.sector * Pow2(S) + a.offset
SizeIndex == Index(vsl.size)

\* C19: slice(start..end) fails whenever end > size(); for
\* start <= end <= size() it succeeds with end - start elements, the
\* volume's elements at those indices, and address() = start; for the
\* in-memory volume and for the file.
C19_Slice ==
    Sliced =>
        /\ Index(vsl.end) > SizeIndex => IsErr(vsl.out)
        /\ Index(vsl.end) <= SizeIndex =>
              /\ IsOk(vsl.out)
              /\ Len(vsl.out.val.inner) = Index(vsl.end) - Index(vsl.start)
              /\ \A k \in 1..Len(vsl.out.val.inner) :
                     vsl.out.val.inner[k] = ByteAt(vsl.volume, Index(vsl.start) + k - 1)
              /\ VolumeSlice_address(vsl.out.val) = vsl.start

\* C20: commit() of a slice that was never accessed mutably is None; commit()
\* of one that was is Some(commit) with the slice's bytes and its start
\* address; is_mutated() is true exactly when the slice was accessed mutably.
C20_Commit ==
    /\ (vsl.op = "commit" /\ vsl.touched = 0) => vsl.out = None
    /\ (vsl.op = "commit" /\ vsl.touched > 0) =>
          vsl.out = Some([inner |-> vsl.slice.inner, index |-> vsl.slice.index])
    /\ (vsl.op \in { "slice", "as_ref", "as_mut" } /\ IsOk(vsl.out)) =>
          (VolumeSlice_is_mutated(vsl.out.val) <=> vsl.touched > 0)

\* C21: on an in-memory volume, Volume::commit of the commit of a slice of
\* [a, b) returns Ok, leaves the length alone, makes the elements at [a, b)
\* equal to the committed buffer and leaves every other element as it was;
\* Volume::commit(None) changes nothing and returns Ok.
C21_CommitWritesRange ==
    vsl.op = "written" =>
        /\ IsOk(vsl.out)
        /\ vsl.out.val.len = vsl.before.len
        /\ ~vsl.commit.some => vsl.out.val = vsl.before
        /\ vsl.commit.some =>
              \A a \in 0..(vsl.before.len - 1) :
                  ByteAt(vsl.out.val, a) =
                      IF Index(vsl.start) <= a /\ a < Index(vsl.end)
                      THEN vsl.commit.v.inner[a - Index(vsl.start) + 1]
                      ELSE ByteAt(vsl.before, a)

\* a stored byte has reached the volume, in a range that is not the whole
\* volume and does not start at 0
C21_Witness ==
    /\ vsl.op = "written"
    /\ vsl.commit.some
    /\ Index(vsl.start) > 0
    /\ Index(vsl.end) < vsl.before.len
    /\ IsOk(vsl.out)
    /\ ByteAt(vsl.out.val, Index(vsl.end) - 1) = WRITTEN
    /\ ByteAt(vsl.before, Index(vsl.end) - 1) # WRITTEN

\* C22: as long as Volume::commit has not been called with the slice's
\* commit, the volume is what it was before the slice was taken, whatever
\* was stored through the slice and whether it was dropped or not.
C22_MutationIsLocal ==
    vsl.op \in { "slice", "as_ref", "as_mut", "commit", "dropped" } =>
        vsl.volume = vsl.before

\* a slice that was stored to is dropped
C22_Witness ==
    /\ vsl.op = "dropped"
    /\ vsl.touched > 0

(***************************************************************************)
(* Properties of the synced handle, over SpecSync and SpecSyncFair.        *)
(***************************************************************************)
InsideSlice(t) == Instr(t).i = "slice" /\ thr[t].mid
Holding(t) == lock = t
SectorAt(at) == [k \in 1..Pow2(S) |-> at + k]

\* C13: at most one thread at a time is inside a volume access: no two
\* threads are between the seek and the read of a slice, a thread that is
\* about to seek or read holds the mutex, and every slice a thread got
\* holds the bytes at the address it asked for.
C13_ExclusiveAccess ==
    /\ \A t \in Threads, u \in Threads :
          (InsideSlice(t) /\ InsideSlice(u)) => t = u
    /\ \A t \in Threads : Instr(t).i = "slice" => Holding(t)
    /\ \A t \in Threads : \A k \in 1..Len(thr[t].got) :
          thr[t].got[k].out = Ok(SectorAt(thr[t].got[k].at))

\* a thread is between its seek and its read while another waits for the lock
C13_Witness ==
    \E t \in Threads, u \in Threads :
        /\ t # u
        /\ InsideSlice(t)
        /\ Instr(u).i = "lock"
        /\ Len(thr[u].got) > 0
        /\ cursor # thr[u].got[Len(thr[u].got)].at + Pow2(S)

AllDone == \A t \in Threads : Done(t)

LockPerStep ==
    \A t \in Threads :
        /\ Instr(t).i = "lock" => ~Holding(t)
        /\ Instr(t).i = "ret" => ~Holding(t)
        /\ Done(t) => ~Holding(t)

\* C14: every step of Inodes, InodeBlocks and Directory and every call of
\* inode_nth, try_block, read, directory and open takes the mutex only while
\* it does not hold it and has released it when it returns, and every
\* interleaving of such calls by several threads runs to completion.
C14_LockPerStep == [](LockPerStep) /\ <>(AllDone)

\* all threads are done although one had to wait for the lock
C14_Witness ==
    /\ AllDone
    /\ lock = 0
    /\ \A t \in Threads : Len(thr[t].got) > 1

=============================================================================
